---- MODULE Spec2Model ----
(***************************************************************************)
(* Model of the collision-avoidance controller of tms-robot-control:       *)
(* robot/control/repulsion.py, class RepulsionField.                       *)
(*                                                                         *)
(* Numbers.  Python floats are modelled by exact rationals <<n, d>> in     *)
(* lowest terms with d > 0 (rounding is abstracted away).  np.exp is       *)
(* modelled by its Taylor polynomial of degree ExpOrder, which is exact    *)
(* at 0 and strictly increasing on the non-negative arguments the          *)
(* controller feeds it.  None is the empty tuple.                          *)
(*                                                                         *)
(* Objects.  A dict is a function from key strings to numbers, held in a   *)
(* heap of dict objects; an instance holds a reference into the heap, so   *)
(* that sharing and copying of REPULSION_CONFIG are distinguishable.       *)
(***************************************************************************)
EXTENDS Integers, Sequences, FiniteSets, TLC

\* ------------------------------------------------------------------ bounds
MaxOps == 3          \* calls made on one controller in one behaviour
MaxPairOps == 2      \* calls made on two controllers side by side
MaxCycles == 4       \* calls the control loop makes when no message arrives
MaxThreadCalls == 2  \* calls begun by the two threads together
MaxUpdateLen == 2    \* entries in one config_updates mapping
ExpOrder == 3        \* degree of the polynomial standing for np.exp
MaxElfinOps == 3     \* calls made on the protocol client in one behaviour
MaxStrengthOps == 4  \* calls made on one controller while its strength is retuned
MaxStreamOps == 4    \* calls made on the client while the controller answers late
MaxTrackerOps == 3   \* calls made on the tracker in one behaviour
MaxTrials == 2       \* max_trials of the experiment
MaxSamples == 2      \* samples recorded in one trial
Duration == 2        \* duration of a trial, in ticks of the clock
MaxFrames == 2       \* frames the acquisition thread stores in one behaviour

\* -------------------------------------------------------------- arithmetic
None == <<>>

Abs(n) == IF n < 0 THEN -n ELSE n

RECURSIVE GCD(_, _)
GCD(a, b) == IF b = 0 THEN a ELSE GCD(b, a % b)

\* n / d in lowest terms, for d > 0 and a common divisor g
Reduce(n, d, g) == <<n \div g, d \div g>>

Rat(n, d) == Reduce(n, d, GCD(Abs(n), d))

Zero == <<0, 1>>
One == <<1, 1>>

\* a + b over the common denominator l
AddOver(a, b, l) == Rat(a[1] * (l \div a[2]) + b[1] * (l \div b[2]), l)

RAdd(a, b) == AddOver(a, b, (a[2] \div GCD(a[2], b[2])) * b[2])

RNeg(a) == <<-a[1], a[2]>>

RSub(a, b) == RAdd(a, RNeg(b))

\* a * b, cancelling g1 = gcd(a[1], b[2]) and g2 = gcd(b[1], a[2]) first
MulCancel(a, b, g1, g2) ==
    <<(a[1] \div g1) * (b[1] \div g2), (a[2] \div g2) * (b[2] \div g1)>>

RMul(a, b) == MulCancel(a, b, GCD(Abs(a[1]), b[2]), GCD(Abs(b[1]), a[2]))

\* a / b for b # 0
RDiv(a, b) == RMul(a, IF b[1] > 0 THEN <<b[2], b[1]>> ELSE <<-b[2], -b[1]>>)

RLt(a, b) == a[1] * b[2] < b[1] * a[2]

RGt(a, b) == RLt(b, a)

RLe(a, b) == ~RLt(b, a)

RECURSIVE RPow(_, _)
RPow(a, n) == IF n = 0 THEN One ELSE RMul(a, RPow(a, n - 1))

\* x^j / j!
RECURSIVE ExpTerm(_, _)
ExpTerm(x, j) == IF j = 0 THEN One ELSE RMul(ExpTerm(x, j - 1), RMul(x, <<1, j>>))

RECURSIVE ExpSum(_, _)
ExpSum(x, k) == IF k = 0 THEN One ELSE RAdd(ExpSum(x, k - 1), ExpTerm(x, k))

NpExp(x) == ExpSum(x, ExpOrder)

Zeros3 == <<Zero, Zero, Zero>>

VScale(r, v) == <<RMul(r, v[1]), RMul(r, v[2]), RMul(r, v[3])>>

VAdd(u, v) == <<RAdd(u[1], v[1]), RAdd(u[2], v[2]), RAdd(u[3], v[3])>>

\* ------------------------------------------------------------ configuration
\* robot/constants.py is not among the sources.  The fields are those of the
\* specification's RepulsionConfig; strength, safety_margin, working_distance
\* and ema take the values the test script and the specification quote, and
\* stop_distance a value below the 15 and 20 the test script raises it to.
REPULSION_CONFIG == [strength |-> <<240, 1>>, safety_margin |-> <<65, 1>>,
                     stop_distance |-> <<10, 1>>, ema |-> <<3, 10>>,
                     working_distance |-> <<15, 1>>]

DefaultWorkingDistance == <<15, 1>>

\* the controllers and the dict objects: object 0 is the module-level
\* REPULSION_CONFIG, object i the dict held by controller i
Inst == {1, 2}
Refs == {0} \cup Inst

\* --------------------------------------------------------------------- state
VARIABLES
    heap,             \* dict object -> its contents (REPULSION_CONFIG and the copies)
    cfg_ref,          \* controller -> the dict object self.cfg refers to
    safety_margin,    \* controller -> self.safety_margin (a number or None)
    ema_offset,       \* controller -> self._ema_offset
    brake_direction,  \* controller -> self.brake_direction
    last,             \* the most recent call: its receiver, arguments, results
    margin_set,       \* history: controller -> the margin most recently set on it
    run_len,          \* history: controller -> consecutive no-braking calls so far
    run_base,         \* history: controller -> self._ema_offset when that run began
    nops,             \* calls made so far
    cpc,              \* control-loop thread: where it is in compute_offset
    clocal,           \* control-loop thread: the locals of its compute_offset call
    upc,              \* message thread: where it is in update_config
    upending,         \* message thread: the entries its loop has still to visit
    seen,             \* history: the <<field, value>> pairs the running call has read
    snaps,            \* history: the configurations it could have read as a whole
    earlier,          \* history: the calls before the most recent one, newest first
    connected,        \* ElfinConnectionLinux: self.connected
    socket,           \* ElfinConnectionLinux: self.socket (0: not set, k: the k-th socket)
    sent,             \* history: the encoded messages handed to sendall, in order
    called,           \* the most recent call on the client: arguments and results
    ncalls,           \* calls made on the client so far
    inbound,          \* the replies sent to self.socket and not yet received, oldest first
    objs,             \* pose object -> its six components
    poses,            \* Tracker: self.poses, the three pose objects
    m_tracker_to_robot, \* Tracker: self.m_tracker_to_robot (None or a calibration)
    probe_visible,    \* Tracker: self.probe_visible
    head_visible,     \* Tracker: self.head_visible
    coil_visible,     \* Tracker: self.coil_visible
    head_pose,        \* Tracker: self.head_pose
    coil_pose,        \* Tracker: self.coil_pose (NoObject until the first frame)
    tcalled,          \* the most recent call on the tracker
    tprev,            \* history: the call on the tracker before that one
    tcalls,           \* calls made on the tracker so far
    apc,              \* acquisition thread: where it is in SetCoordinates
    alocal,           \* acquisition thread: the arguments and locals of its call
    observed,         \* control loop: the frame it read most recently
    prev_frame,       \* history: the frame the previous SetCoordinates completed
    new_frame,        \* history: the frame the running or last SetCoordinates completes
    nframes,          \* SetCoordinates calls the acquisition thread has begun
    state,            \* ReproducibilityExperiment: self.state
    current_trial,    \* ReproducibilityExperiment: self.current_trial
    completed_trials, \* ReproducibilityExperiment: self.completed_trials
    trial_data,       \* ReproducibilityExperiment: self.trial_data
    start_time,       \* ReproducibilityExperiment: self.start_time
    trial_results,    \* ReproducibilityExperiment: self.trial_results
    ecalled           \* the most recent call on the experiment

threads == <<cpc, clocal, upc, upending, seen, snaps>>

\* the state of the experiment
experiment == <<state, current_trial, completed_trials, trial_data, start_time,
                trial_results, ecalled>>

\* the state of the tracker
tracker == <<objs, poses, m_tracker_to_robot, probe_visible, head_visible, coil_visible,
             head_pose, coil_pose, tcalled, tprev, tcalls>>

\* the acquisition thread and the control loop reading the tracker
acquisition == <<apc, alocal, observed, prev_frame, new_frame, nframes>>

\* the state of the protocol client
elfin == <<connected, socket, sent, called, ncalls, inbound>>

\* the state of the repulsion controllers
repulsion == <<heap, cfg_ref, safety_margin, ema_offset, brake_direction, last,
               margin_set, run_len, run_base, nops, threads>>

vars == <<repulsion, earlier, elfin, tracker, acquisition, experiment>>

\* self, as the methods of controller i see it
Self(i) == [cfg |-> heap[cfg_ref[i]], safety_margin |-> safety_margin[i],
            ema_offset |-> ema_offset[i], brake_direction |-> brake_direction[i]]

\* ------------------------------------------------------------------- inputs
\* the entries a config_updates mapping is built from
UpdateEntries == {<<"strength", <<400, 1>>>>, <<"safety_margin", <<15, 1>>>>,
                  <<"stop_distance", <<20, 1>>>>, <<"working_distance", <<50, 1>>>>,
                  <<"bogus", <<1, 1>>>>}

\* a dict in iteration order: distinct keys
IsDictItems(items) == \A m, n \in 1..Len(items) : m # n => items[m][1] # items[n][1]

ItemSeqs == UNION {[1..n -> UpdateEntries] : n \in 0..MaxUpdateLen}

\* config_updates: a dict, or something that is not a dict (a string, say)
ConfigUpdates == {[is_dict |-> TRUE, items |-> s] : s \in {t \in ItemSeqs : IsDictItems(t)}}
                 \cup {[is_dict |-> FALSE, items |-> <<>>]}

Distances == {None, <<5, 1>>, <<10, 1>>, <<15, 1>>, <<50, 1>>, <<65, 1>>}

Dts == {<<1, 100>>, <<1, 50>>}

Margins == {None, <<12, 1>>, <<65, 1>>}

Directions == {Zeros3, <<One, Zero, Zero>>, <<Zero, <<-3, 5>>, <<4, 5>>>>}

\* ----------------------------------------------- RepulsionField.update_config
\* line 29: d[key] = value replaces the entry, or adds it when key is new
DictSet(d, key, value) ==
    [k \in DOMAIN d \cup {key} |-> IF k = key THEN value ELSE d[k]]

\* variant: every key is taken
KeyAlwaysRecognized(self, key) == TRUE

\* line 27: if key in self.cfg
KeyRecognized(self, key) == key \in DOMAIN self.cfg

\* variant: the entry is stored in cfg only
ApplyEntryCfgOnly(self, key, value) ==
    IF key \in DOMAIN self.cfg
    THEN [self EXCEPT !.cfg = DictSet(self.cfg, key, value)]
    ELSE self

\* lines 27-36: one iteration of the loop over config_updates.items()
ApplyEntry(self, key, value) ==
    IF KeyRecognized(self, key)
    THEN [self EXCEPT !.cfg = DictSet(self.cfg, key, value),
                      !.safety_margin = IF key = "safety_margin" THEN value ELSE @]
    ELSE self

\* variant: the loop gives up at the first key it does not recognize
RECURSIVE ApplyEntriesUntilUnknown(_, _)
ApplyEntriesUntilUnknown(self, items) ==
    IF items = <<>> \/ Head(items)[1] \notin DOMAIN self.cfg THEN self
    ELSE ApplyEntriesUntilUnknown(
             [self EXCEPT !.cfg = DictSet(self.cfg, Head(items)[1], Head(items)[2]),
                          !.safety_margin = IF Head(items)[1] = "safety_margin"
                                            THEN Head(items)[2] ELSE @],
             Tail(items))

\* lines 26-36: the loop, in iteration order
RECURSIVE ApplyEntries(_, _)
ApplyEntries(self, items) ==
    IF items = <<>> THEN self
    ELSE ApplyEntries(ApplyEntry(self, Head(items)[1], Head(items)[2]), Tail(items))

\* lines 22-38: the fields of self after update_config(config_updates)
update_config(self, config_updates) ==
    IF ~config_updates.is_dict THEN self
    ELSE ApplyEntries(self, config_updates.items)

\* ---------------------------------------------- RepulsionField.compute_offset
\* variant: the stop test nested inside the braking branch
EmergencyStopInsideMargin(self, distance) ==
    /\ distance # None
    /\ self.safety_margin # None
    /\ RLt(distance, self.safety_margin)
    /\ RLt(distance, self.cfg["stop_distance"])

\* variant: None compared as smaller than every number
EmergencyStopNoneIsSmall(self, distance) ==
    distance = None \/ RLt(distance, self.cfg["stop_distance"])

\* line 61: the emergency stop condition
EmergencyStop(self, distance) ==
    distance # None /\ RLt(distance, self.cfg["stop_distance"])

\* variant: the branch is entered without comparing the distance with the margin
InBrakingRangeAnyDistance(self, distance) ==
    /\ self.safety_margin # None
    /\ distance # None

\* lines 67-71: the condition of the repulsion branch
InBrakingRange(self, distance) ==
    /\ self.safety_margin # None
    /\ distance # None
    /\ RLt(distance, self.safety_margin)

\* line 73: self.cfg.get('working_distance', 15.0)
WorkingDistance(self) ==
    IF "working_distance" \in DOMAIN self.cfg THEN self.cfg["working_distance"]
    ELSE DefaultWorkingDistance

\* variant: the comparison turned around
InApproachZoneSwapped(self, distance) == RLt(distance, WorkingDistance(self))

\* line 75: if distance > working_distance
InApproachZone(self, distance) == RGt(distance, WorkingDistance(self))

\* the divisor the zone's formula uses (lines 77 and 83)
ZoneDivisor(self, distance) ==
    IF InApproachZone(self, distance)
    THEN RSub(self.safety_margin, WorkingDistance(self))
    ELSE WorkingDistance(self)

\* variant: the ramp not squared
ApproachMagnitudeLinear(self, distance) ==
    RMul(self.cfg["strength"],
         RDiv(RSub(self.safety_margin, distance),
              RSub(self.safety_margin, WorkingDistance(self))))

\* lines 77-78, for a non-zero divisor
ApproachMagnitude(self, distance) ==
    RMul(self.cfg["strength"],
         RPow(RDiv(RSub(self.safety_margin, distance),
                   RSub(self.safety_margin, WorkingDistance(self))), 2))

\* variant: 2 * 1 - normalized, the parentheses left out
WorkingMagnitudeUnbracketed(self, distance) ==
    RMul(self.cfg["strength"],
         NpExp(RSub(<<2, 1>>, RDiv(distance, WorkingDistance(self)))))

\* lines 83-84, for a non-zero divisor
WorkingMagnitude(self, distance) ==
    RMul(self.cfg["strength"],
         NpExp(RMul(<<2, 1>>, RSub(One, RDiv(distance, WorkingDistance(self))))))

\* variant: the strength read from the module-level defaults, not from self.cfg
BrakeMagnitudeDefaultStrength(self, distance) ==
    IF InApproachZone(self, distance)
    THEN ApproachMagnitude([self EXCEPT !.cfg["strength"] = REPULSION_CONFIG["strength"]],
                           distance)
    ELSE WorkingMagnitude([self EXCEPT !.cfg["strength"] = REPULSION_CONFIG["strength"]],
                          distance)

\* lines 75-85
BrakeMagnitude(self, distance) ==
    IF InApproachZone(self, distance) THEN ApproachMagnitude(self, distance)
    ELSE WorkingMagnitude(self, distance)

\* variant: the previous smoothed offset is not carried into the new one
EmaSmoothNoCarry(self, raw_offset) ==
    VScale(RSub(One, self.cfg["ema"]), raw_offset)

\* variant: the two weights exchanged
EmaSmoothSwapped(self, raw_offset) ==
    VAdd(VScale(RSub(One, self.cfg["ema"]), self.ema_offset),
         VScale(self.cfg["ema"], raw_offset))

\* lines 93-95
EmaSmooth(self, raw_offset) ==
    VAdd(VScale(self.cfg["ema"], self.ema_offset),
         VScale(RSub(One, self.cfg["ema"]), raw_offset))

\* the zone the call logs (lines 79 and 85)
ZoneName(self, distance) ==
    IF InApproachZone(self, distance) THEN "APPROACH" ELSE "WORKING"

\* variant: the emergency stop decays the smoothed offset before it returns
StopResultSmoothed(self) ==
    [offset |-> self.brake_direction, stop_now |-> TRUE, raised |-> FALSE,
     raw_offset |-> Zeros3, zone |-> "NONE", brake_magnitude |-> None,
     ema_offset |-> VScale(self.cfg["ema"], self.ema_offset)]

\* lines 60-64: the emergency stop returns before any smoothing
StopResult(self) ==
    [offset |-> self.brake_direction, stop_now |-> TRUE, raised |-> FALSE,
     raw_offset |-> Zeros3, zone |-> "NONE", brake_magnitude |-> None,
     ema_offset |-> self.ema_offset]

\* a division by zero on line 77 or 83 raises before anything is assigned
RaisedResult(self, distance) ==
    [offset |-> None, stop_now |-> FALSE, raised |-> TRUE,
     raw_offset |-> Zeros3, zone |-> ZoneName(self, distance),
     brake_magnitude |-> None, ema_offset |-> self.ema_offset]

\* lines 92-96: the smoothed offset is stored and returned
SmoothedResult(smoothed, raw_offset, zone, brake_magnitude) ==
    [offset |-> smoothed, stop_now |-> FALSE, raised |-> FALSE,
     raw_offset |-> raw_offset, zone |-> zone,
     brake_magnitude |-> brake_magnitude, ema_offset |-> smoothed]

\* lines 88-96, given the raw offset
SmoothRaw(self, raw_offset, zone, brake_magnitude) ==
    SmoothedResult(EmaSmooth(self, raw_offset), raw_offset, zone, brake_magnitude)

\* variant: the offset points along x whatever direction was set
RawOffsetAlongX(self, brake_magnitude, dt) ==
    VScale(dt, VScale(brake_magnitude, <<One, Zero, Zero>>))

\* line 88: brake_magnitude * self.brake_direction * dt
RawOffset(self, brake_magnitude, dt) ==
    VScale(dt, VScale(brake_magnitude, self.brake_direction))

\* lines 75-96, given the magnitude
Brake(self, distance, dt, brake_magnitude) ==
    SmoothRaw(self, RawOffset(self, brake_magnitude, dt), ZoneName(self, distance),
              brake_magnitude)

\* lines 57-96: what one call returns, logs and leaves in self._ema_offset
compute_offset(self, distance, dt) ==
    IF EmergencyStop(self, distance) THEN StopResult(self)
    ELSE IF InBrakingRange(self, distance)
    THEN IF ZoneDivisor(self, distance) = Zero THEN RaisedResult(self, distance)
         ELSE Brake(self, distance, dt, BrakeMagnitude(self, distance))
    ELSE SmoothRaw(self, Zeros3, "NONE", None)

\* -------------------------------------------------- RepulsionField.__init__
\* variant: self.cfg = REPULSION_CONFIG, the module-level dict itself
ConfigShared(i) == 0

\* line 7: REPULSION_CONFIG.copy() is a new dict object, one per controller
ConfigCopy(i) == i

\* the record of a call
NoCall == [op |-> "none", inst |-> 0, config_updates |-> [is_dict |-> FALSE, items |-> <<>>],
           distance |-> None, dt |-> Zero, value |-> None, prev_offset |-> Zeros3,
           offset |-> None, stop_now |-> FALSE, raised |-> FALSE,
           raw_offset |-> Zeros3, zone |-> "NONE", brake_magnitude |-> None]

\* the locals of compute_offset before the call has assigned them
NoLocals == [distance |-> None, dt |-> Zero, raw_offset |-> Zeros3,
             zone |-> "NONE", brake_magnitude |-> None]

\* ============================================== robot/robots/elfin
\* ElfinConnectionLinux (elfin_connection_linux.py): the protocol client.

\* ------------------------------------------------------------ Python values
\* what a method of the client returns: None, a bool, a list of str, a list of
\* numbers or a MotionState
PyNone == [kind |-> "None", b |-> FALSE, strs |-> <<>>, nums |-> <<>>, name |-> ""]

PyBool(b) == [PyNone EXCEPT !.kind = "bool", !.b = b]

PyStrs(strs) == [PyNone EXCEPT !.kind = "list_str", !.strs = strs]

PyNums(nums) == [PyNone EXCEPT !.kind = "list_num", !.nums = nums]

PyState(name) == [PyNone EXCEPT !.kind = "MotionState", !.name = name]

\* the truth value of `if value:`
Truthy(value) ==
    CASE value.kind = "None" -> FALSE
      [] value.kind = "bool" -> value.b
      [] value.kind = "list_str" -> value.strs # <<>>
      [] value.kind = "list_num" -> value.nums # <<>>
      [] OTHER -> TRUE

\* a call that returns value / a call that raises
Return(value) == [value |-> value, raised |-> ""]

Raise(exception) == [value |-> PyNone, raised |-> exception]

Min(a, b) == IF a < b THEN a ELSE b

\* l[lo:hi] for 0 <= lo and 0 <= hi
Slice(l, lo, hi) == SubSeq(l, lo + 1, Min(hi, Len(l)))

\* l[lo:-1]
SliceButLast(l, lo) == SubSeq(l, lo + 1, Len(l) - 1)

\* ------------------------------------------------------------------- text
\* A text is the sequence of its tokens: "," and the pieces between commas.
Comma == ","

\* ",".join(fields)
RECURSIVE Join(_)
Join(fields) ==
    IF fields = <<>> THEN <<>>
    ELSE IF Len(fields) = 1 THEN <<fields[1]>>
    ELSE <<fields[1], Comma>> \o Join(Tail(fields))

\* text.split(','), with the fields before the current one and the current
\* field so far
RECURSIVE SplitFrom(_, _, _)
SplitFrom(text, fields, field) ==
    IF text = <<>> THEN Append(fields, field)
    ELSE IF Head(text) = Comma THEN SplitFrom(Tail(text), Append(fields, field), "")
    ELSE SplitFrom(Tail(text), fields, field \o Head(text))

Split(text) == SplitFrom(text, <<>>, "")

\* the strings float() accepts, with their values; it raises ValueError on
\* every other string
FloatTable == [s \in {"0", "1", "1.5", "10.0", "20.0", "30.0"} |->
                 CASE s = "0" -> Zero
                   [] s = "1" -> One
                   [] s = "1.5" -> <<3, 2>>
                   [] s = "10.0" -> <<10, 1>>
                   [] s = "20.0" -> <<20, 1>>
                   [] s = "30.0" -> <<30, 1>>]

IsFloatText(s) == s \in DOMAIN FloatTable

\* [float(s) for s in strs]
Floats(strs) == [n \in 1..Len(strs) |-> FloatTable[strs[n]]]

AllFloatTexts(strs) == \A n \in 1..Len(strs) : IsFloatText(strs[n])

\* line 10 and line 12
MESSAGE_ENDING_CHARS == <<Comma, ";">>

ROBOT_ID == "0"

\* ------------------------------------------------------------------ inputs
\* what the controller sends back, as text: a pose reply in the controller's
\* layout (six joint values, six pose values, the end field), the reply the
\* specification quotes, failures with and without an error code, a status
\* that is neither OK nor Fail, an OK without payload, robot states (moving,
\* a middle flag, error), a force reading, and the empty text of a closed
\* connection
PoseReply ==
    Join(<<"ReadActPos", "OK", "0", "0", "0", "0", "0", "0",
           "10.0", "20.0", "30.0", "0", "1", "1.5", ";">>)

QuotedPoseReply == Join(<<"1", "OK", "10.0", "20.0", "30.0", "0", "0", "0">>)

FailReply == Join(<<"1", "Fail", "ERR3">>)

FailNoCodeReply == Join(<<"1", "Fail">>)

OtherStatusReply == Join(<<"1", "Busy", ";">>)

OkReply == Join(<<"1", "OK", ";">>)

StateReply(moving, error) == Join(<<"ReadRobotState", "OK", moving, "0", error, ";">>)

ForceReply ==
    Join(<<"ReadForceSensorData", "OK", "1.5", "0", "0", "0", "1", "10.0", ";">>)

ClosedReply == <<>>

Replies ==
    {PoseReply, QuotedPoseReply, FailReply, FailNoCodeReply, OtherStatusReply, OkReply,
     StateReply("0", "0"), StateReply("1", "0"), StateReply("0", "1"),
     ForceReply, ClosedReply}

\* what recv does: it raises TimeoutError or returns the text of a reply
Exchanges ==
    {[timed_out |-> TRUE, text |-> <<>>]}
    \cup {[timed_out |-> FALSE, text |-> text] : text \in Replies}

\* ------------------------------------------- ElfinConnectionLinux.connect
\* lines 23-33: a socket that connects replaces self.socket and sets
\* self.connected; any exception is caught and printed, nothing else
connect(self, reachable) ==
    IF reachable
    THEN [value |-> PyNone, raised |-> "", connected |-> TRUE,
          socket |-> self.socket + 1, sent |-> self.sent]
    ELSE [value |-> PyNone, raised |-> "", connected |-> self.connected,
          socket |-> self.socket, sent |-> self.sent]

\* -------------------------------------- ElfinConnectionLinux.check_status
\* lines 52-59; recv_message[1] and recv_message[2] raise IndexError on a
\* list that is too short, and a status that is neither 'OK' nor 'Fail'
\* falls off the end of the method
check_status(recv_message) ==
    IF Len(recv_message) < 2 THEN Raise("IndexError")
    ELSE IF recv_message[2] = "OK" THEN Return(PyBool(TRUE))
    ELSE IF recv_message[2] = "Fail"
    THEN IF Len(recv_message) < 3 THEN Raise("IndexError") ELSE Return(PyBool(FALSE))
    ELSE Return(PyNone)

\* ---------------------------------------------- ElfinConnectionLinux.send
\* lines 36-37: message + self.MESSAGE_ENDING_CHARS
Encode(message) == message \o MESSAGE_ENDING_CHARS

\* the outcome of a call on the client: what it returns or raises, and the
\* fields of self and the transmissions after it
Outcome(self, result, is_connected, transmitted) ==
    [value |-> result.value, raised |-> result.raised, connected |-> is_connected,
     socket |-> self.socket, sent |-> transmitted]

\* line 38 on a client that never connected: self.socket is not set
NoSocket(self) == Outcome(self, Raise("AttributeError"), self.connected, self.sent)

\* variant: the command is transmitted again after the timeout
TimedOutRetransmits(self, encoded) ==
    Outcome(self, Return(PyBool(FALSE)), FALSE, self.sent \o <<encoded, encoded>>)

\* lines 38-44: transmitted, then recv raises TimeoutError
TimedOut(self, encoded) ==
    Outcome(self, Return(PyBool(FALSE)), FALSE, Append(self.sent, encoded))

\* lines 46-50, given the status check_status returned
PayloadOrStatus(data, status) ==
    IF Truthy(status) /\ Len(data) > 3 THEN PyStrs(SliceButLast(data, 2)) ELSE status

\* lines 46-50, given what check_status did
Checked(data, checked) ==
    IF checked.raised # "" THEN checked
    ELSE Return(PayloadOrStatus(data, checked.value))

\* lines 38-50: transmitted, then recv returns the fields of a reply
Received(self, encoded, data) ==
    Outcome(self, Checked(data, check_status(data)), self.connected,
            Append(self.sent, encoded))

\* lines 35-50
send(self, message, exchange) ==
    IF self.socket = 0 THEN NoSocket(self)
    ELSE IF exchange.timed_out THEN TimedOut(self, Encode(message))
    ELSE Received(self, Encode(message), Split(exchange.text))

\* ---------------------------------------------------- the command wrappers
\* what a wrapper makes of the outcome of its send: an exception of send
\* passes through, otherwise the wrapper's own result stands
Wrapped(sending, result) ==
    IF sending.raised # "" THEN sending
    ELSE [sending EXCEPT !.value = result.value, !.raised = result.raised]

\* variant: the pose taken from the start of the payload
PoseSliceFromStart(floats) == Slice(floats, 0, 6)

\* line 160: [...][6:12]
PoseSlice(floats) == Slice(floats, 6, 12)

\* lines 159-162: a true coord is iterated and converted, a false one returned
CoordinatesOf(coord) ==
    IF ~Truthy(coord) THEN Return(coord)
    ELSE IF coord.kind = "bool" THEN Raise("TypeError")
    ELSE IF ~AllFloatTexts(coord.strs) THEN Raise("ValueError")
    ELSE Return(PyNums(PoseSlice(Floats(coord.strs))))

\* lines 146-162
GetCoordinates(self, exchange) ==
    Wrapped(send(self, <<"ReadActPos", Comma, ROBOT_ID>>, exchange),
            CoordinatesOf(send(self, <<"ReadActPos", Comma, ROBOT_ID>>, exchange).value))

\* line 213: [0]*6
SixZeros == <<Zero, Zero, Zero, Zero, Zero, Zero>>

\* lines 211-213
ForcesOf(status) ==
    IF ~Truthy(status) THEN Return(PyNums(SixZeros))
    ELSE IF status.kind = "bool" THEN Raise("TypeError")
    ELSE IF ~AllFloatTexts(status.strs) THEN Raise("ValueError")
    ELSE Return(PyNums(Floats(status.strs)))

\* lines 198-213
ReadForceSensor(self, exchange) ==
    Wrapped(send(self, <<"ReadForceSensorData">>, exchange),
            ForcesOf(send(self, <<"ReadForceSensorData">>, exchange).value))

\* bool(s) of a str: true unless the string is empty
BoolOfStr(s) == s # ""

\* lines 237-246: the two flags are bool() of the fields as received
MotionStateOf(read_robot_state) ==
    IF read_robot_state.kind # "list_str" THEN Raise("TypeError")
    ELSE IF Len(read_robot_state.strs) < 3 THEN Raise("IndexError")
    ELSE IF BoolOfStr(read_robot_state.strs[3]) THEN Return(PyState("ERROR"))
    ELSE IF BoolOfStr(read_robot_state.strs[1]) THEN Return(PyState("IN_MOTION"))
    ELSE Return(PyState("FREE_TO_MOVE"))

\* lines 229-246
GetMotionState(self, exchange) ==
    Wrapped(send(self, <<"ReadRobotState", Comma, ROBOT_ID>>, exchange),
            MotionStateOf(send(self, <<"ReadRobotState", Comma, ROBOT_ID>>, exchange).value))

\* a wrapper that raises before it has called send
RaisedBeforeSend(self, exception) ==
    Outcome(self, Raise(exception), self.connected, self.sent)

\* the lists a caller passes as distance or as a position: of numbers, as
\* the docstrings say, or of strings
ArgumentLists == {PyNums(<<(<<10, 1>>)>>), PyStrs(<<"10.0">>)}

\* lines 193-194, with axis 0 and direction 1
MoveRelLMessage(distance) ==
    <<"MoveRelL", Comma, ROBOT_ID, Comma, "0", Comma, "1", Comma>> \o Join(distance.strs)

\* lines 177-196: line 191 joins distance itself, which str.join accepts for
\* a list of strings only; the result of send is dropped and the method
\* returns None
MoveLinearRelative(self, distance, exchange) ==
    IF distance.kind # "list_str" THEN RaisedBeforeSend(self, "TypeError")
    ELSE Wrapped(send(self, MoveRelLMessage(distance), exchange), Return(PyNone))

\* lines 258-283: line 272 joins start_position itself, and line 278 names
\* final_target, which is defined nowhere
MoveCircular(self, start_position) ==
    IF start_position.kind # "list_str" THEN RaisedBeforeSend(self, "TypeError")
    ELSE RaisedBeforeSend(self, "NameError")

\* lines 285-304: line 297 reads waypoint_str, a local not yet assigned
MoveLinearWithWaypoint(self) == RaisedBeforeSend(self, "UnboundLocalError")

\* lines 215-227: line 225 reads status, a local not yet assigned
SetToolCoordinateMotion(self) == RaisedBeforeSend(self, "UnboundLocalError")

\* what the controller answers to a command: field 0 echoes the command
\* name, field 1 is the status, the payload follows
ReplyTo(message) ==
    CASE message[1] = "ReadActPos" -> PoseReply
      [] message[1] = "ReadForceSensorData" -> ForceReply
      [] message[1] = "ReadRobotState" -> StateReply("1", "0")
      [] OTHER -> Join(<<message[1], "OK", ";">>)

\* the wrappers that return what send returned: PowerUp (lines 61-70) and
\* StopRobot (lines 125-133) stand for PowerOutage, StartMasterStation,
\* StopMasterStation, EnableRobotServo, DisableRobotServo, SetSpeedRatio,
\* MoveLinear and HomeRobot, which differ in the message only
StatusCommands ==
    {<<"PowerUp", <<"Electrify">>>>, <<"StopRobot", <<"GrpStop", Comma, ROBOT_ID>>>>}

\* ----------------------------------------- ElfinConnectionLinux.__init__
\* the record of a call on the client
NoExchange == [timed_out |-> FALSE, text |-> <<>>]

NoElfinCall == [op |-> "none", message |-> <<>>, exchange |-> NoExchange,
                transmitted |-> FALSE, refused |-> FALSE, value |-> PyNone, raised |-> ""]

\* elfin_connection_linux.py lines 14-21: no socket yet, not connected
InitElfin ==
    /\ connected = FALSE
    /\ socket = 0
    /\ sent = <<>>
    /\ called = NoElfinCall
    /\ ncalls = 0
    /\ inbound = <<>>

\* ==================================================================== Tracker
\* robot/control/coordinates.py, class Tracker.  A pose is a Python list, an
\* object the caller and the tracker both hold: the heap objs maps a pose
\* object to its six components, and a reference is the number of the
\* object, NoObject standing for None.
NoObject == 0

PoseRefs == 1 .. (3 * MaxFrames)

\* the pose list object k as the tracking subsystem delivers it:
\* (x, y, z, rx, ry, rz), the rotations in the rotating-frame convention
DeliveredPose(k) == <<10 * k, 20, 30 + k, k, 0, 90 + k>>

\* the list of three pose objects of the k-th frame
FramePoses(k) == <<3 * k - 2, 3 * k - 1, 3 * k>>

\* the lists a caller passes as poses: the first and the second frame, the
\* first frame with its objects in another order, and lists that hold one
\* object in two slots
PoseLists == {FramePoses(1), FramePoses(2), <<3, 2, 1>>, <<1, 2, 2>>, <<1, 1, 3>>}

Visibilities == {<<TRUE, TRUE, TRUE>>, <<TRUE, FALSE, TRUE>>}

\* a variant that stores component 3 before it reads it for component 5
SwapRxRzOverwrite(pose) == [pose EXCEPT ![4] = pose[6]]

\* coordinates.py lines 59-60: pose[3], pose[5] = pose[5], pose[3]
SwapRxRz(pose) == [pose EXCEPT ![4] = pose[6], ![6] = pose[4]]

\* the swap made in place on the object ref
SwapIn(h, ref) == [h EXCEPT ![ref] = SwapRxRz(h[ref])]

\* lines 44-60: the tracker and the heap after SetCoordinates(poses, visibilities)
SetCoordinates(self, h, p, visibilities) ==
    [self |-> [self EXCEPT !.poses = p,
                           !.probe_visible = visibilities[1],
                           !.head_visible = visibilities[2],
                           !.coil_visible = visibilities[3],
                           !.head_pose = p[2],
                           !.coil_pose = p[3]],
     objs |-> SwapIn(SwapIn(h, p[2]), p[3])]

\* robot/control/robot_processing.py and robot/transformations.py are not
\* among the sources.  A homogeneous transform is held as its translation
\* and its fixed-axis angles, and a calibration (X, Y, affine) is made of
\* translations only, so that Y @ M @ inverse(X) keeps the angles of M and
\* affine @ M adds the translation of affine to that of M.
Calibrations == {<<(<<1, 0, 0>>), <<0, 2, 0>>, <<5, 5, 5>>>>,
                 <<(<<0, 0, 0>>), <<0, 0, 0>>, <<0, 0, 0>>>>}

\* coordinates_to_transformation_matrix(position, orientation, axes="sxyz")
coordinates_to_transformation_matrix(position, orientation) ==
    [translation |-> position, angles |-> orientation]

\* M_affine_in_robot_space = affine @ M
Translate(affine, M) ==
    [M EXCEPT !.translation = <<affine[1] + M.translation[1],
                                affine[2] + M.translation[2],
                                affine[3] + M.translation[3]>>]

\* the result of a call on the tracker: a value, or the exception raised
TReturn(value) == [value |-> value, raised |-> ""]

TRaise(exception) == [value |-> <<>>, raised |-> exception]

\* lines 65-80: unpacking self.m_tracker_to_robot fails when it is None
transform_matrix_to_robot_space(self, M) ==
    IF self.m_tracker_to_robot = None
    THEN TRaise("TypeError")
    ELSE TReturn(Translate(self.m_tracker_to_robot[3], M).translation \o M.angles)

\* lines 82-93
transform_pose_to_robot_space(self, pose) ==
    IF transform_matrix_to_robot_space(self,
           coordinates_to_transformation_matrix(SubSeq(pose, 1, 3), SubSeq(pose, 4, 6))).raised # ""
    THEN transform_matrix_to_robot_space(self,
           coordinates_to_transformation_matrix(SubSeq(pose, 1, 3), SubSeq(pose, 4, 6)))
    ELSE TReturn(
           IF transform_matrix_to_robot_space(self,
                  coordinates_to_transformation_matrix(SubSeq(pose, 1, 3),
                                                       SubSeq(pose, 4, 6))).value = None
           THEN pose
           ELSE transform_matrix_to_robot_space(self,
                  coordinates_to_transformation_matrix(SubSeq(pose, 1, 3),
                                                       SubSeq(pose, 4, 6))).value)

\* the record of a call on the tracker, with the heap as it was before it
NoTrackerCall == [op |-> "none", poses |-> <<>>, visibilities |-> <<>>, pose |-> <<>>,
                  value |-> <<>>, raised |-> "", before |-> <<>>]

\* coordinates.py lines 31-39
InitTracker ==
    /\ objs = [k \in PoseRefs |-> DeliveredPose(k)]
    /\ poses = <<NoObject, NoObject, NoObject>>
    /\ m_tracker_to_robot = None
    /\ probe_visible = FALSE
    /\ head_visible = FALSE
    /\ coil_visible = FALSE
    /\ head_pose = NoObject
    /\ coil_pose = NoObject
    /\ tcalled = NoTrackerCall
    /\ tprev = NoTrackerCall
    /\ tcalls = 0

\* -------------------------------------------- the tracker read while written
\* what a reference holds: None, or the components of the pose object
Content(h, ref) == IF ref = NoObject THEN None ELSE h[ref]

\* the frame the tracker holds: the three poses, the flags, and the head
\* and coil poses
Frame(self, h) ==
    [poses |-> <<Content(h, self.poses[1]), Content(h, self.poses[2]),
                 Content(h, self.poses[3])>>,
     visible |-> <<self.probe_visible, self.head_visible, self.coil_visible>>,
     head_pose |-> Content(h, self.head_pose),
     coil_pose |-> Content(h, self.coil_pose)]

\* the frame of a tracker on which SetCoordinates was never called
InitialFrame ==
    [poses |-> <<None, None, None>>, visible |-> <<FALSE, FALSE, FALSE>>,
     head_pose |-> None, coil_pose |-> None]

\* the arguments of the running SetCoordinates and the values its swap has read
NoAcquisition == [poses |-> <<>>, visibilities |-> <<>>, rx |-> 0, rz |-> 0]

\* a read of the tracker by the control loop, with the frames that were
\* complete when it was made
Observation(frame, previous, new) == [frame |-> frame, previous |-> previous, new |-> new]

InitAcquisition ==
    /\ apc = "idle"
    /\ alocal = NoAcquisition
    /\ observed = Observation(InitialFrame, InitialFrame, InitialFrame)
    /\ prev_frame = InitialFrame
    /\ new_frame = InitialFrame
    /\ nframes = 0

\* ============================================== ReproducibilityExperiment
\* robot/experiments/reproducibility_experiment.py.  The experiment is made
\* with max_trials = MaxTrials and duration = Duration; a sample is held as
\* its elapsed_time, a result as its trial number and its number of samples.
IDLE == "idle"
ARMED == "armed"
RECORDING == "recording"
SAVING == "saving"

\* what time.time() returns when recording starts, and the timestamps the
\* caller passes to update
StartTimes == {0, 1}

Timestamps == 0 .. (Duration + 1)

\* what a method returns, and the exception it raises if it does
EReturn(self, value) == [self |-> self, value |-> value, raised |-> ""]

ERaise(self, exception) == [self |-> self, value |-> "None", raised |-> exception]

\* variant: a trial can be armed in any state
CanArmInAnyState(self) == self.completed_trials < MaxTrials

\* lines 78-81
can_arm_trial(self) == self.state = IDLE /\ self.completed_trials < MaxTrials

\* variant: the number of completed trials does not limit arming
ArmWithoutLimit(self) ==
    IF self.state # IDLE THEN EReturn(self, "False")
    ELSE EReturn([self EXCEPT !.current_trial = self.completed_trials + 1,
                              !.state = ARMED,
                              !.trial_data = <<>>], "True")

\* lines 83-99
arm_trial(self) ==
    IF ~can_arm_trial(self) THEN EReturn(self, "False")
    ELSE EReturn([self EXCEPT !.current_trial = self.completed_trials + 1,
                              !.state = ARMED,
                              !.trial_data = <<>>], "True")

\* lines 109-131, time.time() returning now
start_recording(self, now) ==
    IF self.state # ARMED THEN EReturn(self, "False")
    ELSE EReturn([self EXCEPT !.state = RECORDING,
                              !.start_time = now,
                              !.trial_data = <<>>], "True")

\* lines 133-186
update(self, timestamp) ==
    IF self.state # RECORDING THEN EReturn(self, "False")
    ELSE EReturn([self EXCEPT !.trial_data = Append(@, timestamp - self.start_time)],
                 IF timestamp - self.start_time >= Duration THEN "True" ELSE "False")

\* lines 254-301: nothing is saved for a trial without samples; open() raises
\* OSError when the file cannot be written
save_trial_data(self, writable) ==
    IF self.trial_data = <<>> THEN EReturn(self, "None")
    ELSE IF ~writable THEN ERaise(self, "OSError")
    ELSE EReturn([self EXCEPT !.trial_results =
                     Append(@, [trial_number |-> self.current_trial,
                                samples_collected |-> Len(self.trial_data)])], "None")

\* variant: a stopped trial is not counted
CompletedUncounted(saved) ==
    EReturn([saved EXCEPT !.state = IDLE], "True")

\* lines 199-210, after _save_trial_data returned leaving self as saved
Completed(saved) ==
    EReturn([saved EXCEPT !.completed_trials = @ + 1, !.state = IDLE], "True")

\* lines 188-210: an exception of _save_trial_data leaves the method at line 197
stop_recording(self, writable) ==
    IF self.state # RECORDING THEN EReturn(self, "False")
    ELSE IF save_trial_data([self EXCEPT !.state = SAVING], writable).raised # ""
    THEN save_trial_data([self EXCEPT !.state = SAVING], writable)
    ELSE Completed(save_trial_data([self EXCEPT !.state = SAVING], writable).self)

\* lines 212-219
cancel_current_trial(self) ==
    IF self.state \in {ARMED, RECORDING}
    THEN EReturn([self EXCEPT !.state = IDLE, !.trial_data = <<>>], "True")
    ELSE EReturn(self, "False")

\* lines 303-337: no file without results; open() raises OSError when the
\* summary cannot be written
export_summary(self, writable) ==
    IF self.trial_results = <<>> THEN EReturn(self, "None")
    ELSE IF ~writable THEN ERaise(self, "OSError")
    ELSE EReturn(self, "filepath")

\* the record of a call on the experiment
NoExperimentCall == [op |-> "none", value |-> "None", raised |-> ""]

\* lines 44-73; start_time is None until a recording starts
InitExperiment ==
    /\ state = IDLE
    /\ current_trial = 0
    /\ completed_trials = 0
    /\ trial_data = <<>>
    /\ start_time = 0
    /\ trial_results = <<>>
    /\ ecalled = NoExperimentCall

\* repulsion.py lines 6-11, for every controller created
Init ==
    /\ heap = [r \in Refs |-> REPULSION_CONFIG]
    /\ cfg_ref = [i \in Inst |-> ConfigCopy(i)]
    /\ safety_margin = [i \in Inst |-> heap[cfg_ref[i]]["safety_margin"]]
    /\ ema_offset = [i \in Inst |-> Zeros3]
    /\ brake_direction = [i \in Inst |-> Zeros3]
    /\ last = NoCall
    /\ margin_set = [i \in Inst |-> heap[cfg_ref[i]]["safety_margin"]]
    /\ run_len = [i \in Inst |-> 0]
    /\ run_base = [i \in Inst |-> Zeros3]
    /\ nops = 0
    /\ cpc = "idle"
    /\ clocal = NoLocals
    /\ upc = "idle"
    /\ upending = <<>>
    /\ seen = {}
    /\ snaps = {}
    /\ earlier = <<>>
    /\ InitElfin
    /\ InitTracker
    /\ InitAcquisition
    /\ InitExperiment

\* -------------------------------------------------------------------- actions
\* history: a call other than a no-braking compute_offset ends the run
EndRun(i) ==
    /\ run_len' = [run_len EXCEPT ![i] = 0]
    /\ run_base' = [run_base EXCEPT ![i] = Zeros3]

\* the value a mapping gives to 'safety_margin', if it has that key
MarginEntries(config_updates) ==
    {config_updates.items[n][2] : n \in {m \in 1..Len(config_updates.items) :
                                          config_updates.items[m][1] = "safety_margin"}}

\* the effect on controller i of update_config(config_updates) leaving self as after
Updated(i, config_updates, after) ==
        /\ heap' = [heap EXCEPT ![cfg_ref[i]] = after.cfg]
        /\ safety_margin' = [safety_margin EXCEPT ![i] = after.safety_margin]
        /\ last' = [NoCall EXCEPT !.op = "update_config", !.inst = i,
                                  !.config_updates = config_updates]
        /\ margin_set' = [margin_set EXCEPT ![i] =
                            IF MarginEntries(config_updates) = {} THEN @
                            ELSE CHOOSE v \in MarginEntries(config_updates) : TRUE]
        /\ EndRun(i)
        /\ nops' = nops + 1
        /\ UNCHANGED <<experiment, tracker, acquisition, elfin, cfg_ref, ema_offset, brake_direction, threads>>

\* controller i receives update_config(config_updates)
UpdateConfig(i) ==
    \E config_updates \in ConfigUpdates :
        Updated(i, config_updates, update_config(Self(i), config_updates))

\* history: the call is one of a run of calls that neither stop nor brake
NoBrakingCall(i, distance) ==
    /\ distance # None
    /\ ~RLt(distance, heap[cfg_ref[i]]["stop_distance"])
    /\ safety_margin[i] # None
    /\ ~RLt(distance, safety_margin[i])

\* the effect on controller i of compute_offset(distance, dt) with outcome r
Returns(i, distance, dt, r) ==
        /\ ema_offset' = [ema_offset EXCEPT ![i] = r.ema_offset]
        /\ last' = [NoCall EXCEPT !.op = "compute_offset", !.inst = i,
                                  !.distance = distance, !.dt = dt,
                                  !.prev_offset = ema_offset[i],
                                  !.offset = r.offset, !.stop_now = r.stop_now,
                                  !.raised = r.raised, !.raw_offset = r.raw_offset,
                                  !.zone = r.zone, !.brake_magnitude = r.brake_magnitude]
        /\ IF NoBrakingCall(i, distance)
           THEN /\ run_len' = [run_len EXCEPT ![i] = @ + 1]
                /\ run_base' = [run_base EXCEPT ![i] =
                                   IF run_len[i] = 0 THEN ema_offset[i] ELSE @]
           ELSE EndRun(i)
        /\ nops' = nops + 1
        /\ UNCHANGED <<experiment, tracker, acquisition, elfin, heap, cfg_ref, safety_margin, brake_direction, margin_set, threads>>

\* controller i receives compute_offset(distance, dt)
ComputeOffset(i) ==
    \E distance \in Distances, dt \in Dts :
        Returns(i, distance, dt, compute_offset(Self(i), distance, dt))

\* lines 98-99: controller i receives update_safety_margin(new_margin)
UpdateSafetyMargin(i) ==
    \E new_margin \in Margins :
        /\ safety_margin' = [safety_margin EXCEPT ![i] = new_margin]
        /\ last' = [NoCall EXCEPT !.op = "update_safety_margin", !.inst = i,
                                  !.value = new_margin]
        /\ margin_set' = [margin_set EXCEPT ![i] = new_margin]
        /\ EndRun(i)
        /\ nops' = nops + 1
        /\ UNCHANGED <<experiment, tracker, acquisition, elfin, heap, cfg_ref, ema_offset, brake_direction, threads>>

\* lines 104-105: controller i receives update_opposite_coil_vector(direction)
UpdateOppositeCoilVector(i) ==
    \E direction \in Directions :
        /\ brake_direction' = [brake_direction EXCEPT ![i] = direction]
        /\ last' = [NoCall EXCEPT !.op = "update_opposite_coil_vector", !.inst = i,
                                  !.value = direction]
        /\ EndRun(i)
        /\ nops' = nops + 1
        /\ UNCHANGED <<experiment, tracker, acquisition, elfin, heap, cfg_ref, safety_margin, ema_offset, margin_set, threads>>

\* one controller, driven by its control loop and its configuration messages
Next ==
    /\ nops < MaxOps
    /\ \/ UpdateConfig(1)
       \/ ComputeOffset(1)
       \/ UpdateSafetyMargin(1)
       \/ UpdateOppositeCoilVector(1)
    /\ UNCHANGED earlier

Spec == Init /\ [][Next]_vars

\* the control loop alone: each cycle sets the direction and asks for the offset
NextLoop ==
    /\ nops < MaxCycles
    /\ \/ UpdateOppositeCoilVector(1)
       \/ ComputeOffset(1)
    /\ UNCHANGED earlier

SpecLoop == Init /\ [][NextLoop]_vars

\* two controllers side by side, each called in turn
NextPair ==
    /\ nops < MaxPairOps
    /\ \E i \in Inst :
        \/ UpdateConfig(i)
        \/ ComputeOffset(i)
        \/ UpdateSafetyMargin(i)
        \/ UpdateOppositeCoilVector(i)
    /\ UNCHANGED earlier

SpecPair == Init /\ [][NextPair]_vars

\* the control loop with an operator retuning strength between the cycles
\* (test_compute_offset_behavior): the mappings carry the key 'strength' only
StrengthUpdates ==
    {[is_dict |-> TRUE, items |-> <<<<"strength", strength>>>>] :
        strength \in {<<400, 1>>, <<120, 1>>}}

UpdateStrength ==
    \E config_updates \in StrengthUpdates :
        Updated(1, config_updates, update_config(Self(1), config_updates))

\* history: the call that has just been superseded, with self as it left it
Remembered == [call |-> last, self |-> Self(1)]

NextStrength ==
    /\ nops < MaxStrengthOps
    /\ \/ UpdateStrength
       \/ ComputeOffset(1)
       \/ UpdateOppositeCoilVector(1)
    /\ earlier' = IF last.op = "none" THEN <<>>
                  ELSE IF earlier = <<>> THEN <<Remembered>>
                  ELSE <<Remembered, earlier[1]>>

SpecStrength == Init /\ [][NextStrength]_vars

\* the dict of controller 1
Cfg1 == heap[cfg_ref[1]]

\* ------------------------------------------------------------- two threads
\* Controller 1 called from two threads with no lock between them: the control
\* loop in compute_offset, the message thread in update_config.  A step is a
\* block of lines the interpreter runs without switching threads; the blocks
\* end where the methods print (lines 30, 36, 90) or re-read self.

\* history: the configuration as one whole
Snapshot(self) == [cfg |-> self.cfg, safety_margin |-> self.safety_margin]

SnapshotField(snap, field) ==
    IF field = "safety_margin" THEN snap.safety_margin ELSE snap.cfg[field]

\* the call record of a compute_offset that has ended
Ended(distance, dt, prev, offset, stop_now, raised, locals) ==
    [NoCall EXCEPT !.op = "compute_offset", !.inst = 1, !.distance = distance,
                   !.dt = dt, !.prev_offset = prev, !.offset = offset,
                   !.stop_now = stop_now, !.raised = raised,
                   !.raw_offset = locals.raw_offset, !.zone = locals.zone,
                   !.brake_magnitude = locals.brake_magnitude]

\* lines 57-58: the call begins
ComputeBegin ==
    \E distance \in Distances, dt \in Dts :
        /\ cpc = "idle"
        /\ nops < MaxThreadCalls
        /\ cpc' = "l61"
        /\ clocal' = [NoLocals EXCEPT !.distance = distance, !.dt = dt]
        /\ seen' = {}
        /\ snaps' = IF upc = "idle" THEN {Snapshot(Self(1))} ELSE snaps
        /\ nops' = nops + 1
        /\ UNCHANGED <<earlier, experiment, tracker, acquisition, elfin, heap, cfg_ref, safety_margin, ema_offset, brake_direction, last,
                       margin_set, run_len, run_base, upc, upending>>

\* lines 61-64: cfg['stop_distance'] is read
ComputeStopTest ==
    /\ cpc = "l61"
    /\ seen' = seen \cup {<<"stop_distance", Cfg1["stop_distance"]>>}
    /\ IF EmergencyStop(Self(1), clocal.distance)
       THEN /\ cpc' = "idle"
            /\ last' = Ended(clocal.distance, clocal.dt, ema_offset[1],
                             brake_direction[1], TRUE, FALSE, clocal)
       ELSE /\ cpc' = "l67"
            /\ last' = last
    /\ UNCHANGED <<earlier, experiment, tracker, acquisition, elfin, heap, cfg_ref, safety_margin, ema_offset, brake_direction,
                   margin_set, run_len, run_base, nops, clocal, upc, upending, snaps>>

\* lines 67-71: self.safety_margin is read
ComputeMarginTest ==
    /\ cpc = "l67"
    /\ seen' = IF clocal.distance = None THEN seen
               ELSE seen \cup {<<"safety_margin", safety_margin[1]>>}
    /\ cpc' = IF InBrakingRange(Self(1), clocal.distance) THEN "l73" ELSE "l93"
    /\ UNCHANGED <<earlier, experiment, tracker, acquisition, elfin, heap, cfg_ref, safety_margin, ema_offset, brake_direction, last,
                   margin_set, run_len, run_base, nops, clocal, upc, upending, snaps>>

\* the fields lines 73-84 read
ZoneReads(self, distance) ==
    {<<"working_distance", WorkingDistance(self)>>, <<"strength", self.cfg["strength"]>>}
    \cup IF InApproachZone(self, distance)
         THEN {<<"safety_margin", self.safety_margin>>} ELSE {}

\* lines 73-90 with the magnitude given
ComputeRawWith(brake_magnitude) ==
    clocal' = [clocal EXCEPT !.raw_offset = RawOffset(Self(1), brake_magnitude, clocal.dt),
                             !.zone = ZoneName(Self(1), clocal.distance),
                             !.brake_magnitude = brake_magnitude]

\* lines 73-90: working_distance, self.safety_margin and strength are read
ComputeRaw ==
    /\ cpc = "l73"
    /\ seen' = seen \cup ZoneReads(Self(1), clocal.distance)
    /\ IF Self(1).safety_margin = None \/ ZoneDivisor(Self(1), clocal.distance) = Zero
       THEN /\ cpc' = "idle"
            /\ clocal' = clocal
            /\ last' = Ended(clocal.distance, clocal.dt, ema_offset[1], None,
                             FALSE, TRUE, clocal)
       ELSE /\ cpc' = "l93"
            /\ ComputeRawWith(BrakeMagnitude(Self(1), clocal.distance))
            /\ last' = last
    /\ UNCHANGED <<earlier, experiment, tracker, acquisition, elfin, heap, cfg_ref, safety_margin, ema_offset, brake_direction,
                   margin_set, run_len, run_base, nops, upc, upending, snaps>>

\* lines 93-96 with the smoothed offset given
ComputeSmoothWith(smoothed) ==
    /\ ema_offset' = [ema_offset EXCEPT ![1] = smoothed]
    /\ last' = Ended(clocal.distance, clocal.dt, ema_offset[1], smoothed,
                     FALSE, FALSE, clocal)

\* lines 93-96: cfg['ema'] is read, the smoothed offset stored and returned
ComputeSmooth ==
    /\ cpc = "l93"
    /\ seen' = seen \cup {<<"ema", Cfg1["ema"]>>}
    /\ ComputeSmoothWith(EmaSmooth(Self(1), clocal.raw_offset))
    /\ cpc' = "idle"
    /\ UNCHANGED <<earlier, experiment, tracker, acquisition, elfin, heap, cfg_ref, safety_margin, brake_direction,
                   margin_set, run_len, run_base, nops, clocal, upc, upending, snaps>>

\* history: the configuration before and the one after the whole update
Planned(config_updates) ==
    {Snapshot(Self(1)), Snapshot(update_config(Self(1), config_updates))}

\* lines 22-26: the argument is tested and the loop begins
UpdateBegin ==
    \E config_updates \in ConfigUpdates :
        /\ upc = "idle"
        /\ nops < MaxThreadCalls
        /\ upc' = IF config_updates.is_dict THEN "loop" ELSE "idle"
        /\ upending' = config_updates.items
        /\ snaps' = IF cpc = "idle" THEN Planned(config_updates)
                    ELSE snaps \cup Planned(config_updates)
        /\ last' = IF config_updates.is_dict THEN last
                   ELSE [NoCall EXCEPT !.op = "update_config", !.inst = 1,
                                       !.config_updates = config_updates]
        /\ nops' = nops + 1
        /\ UNCHANGED <<earlier, experiment, tracker, acquisition, elfin, heap, cfg_ref, safety_margin, ema_offset, brake_direction,
                       margin_set, run_len, run_base, cpc, clocal, seen>>

\* lines 27-36 with the fields of self after the iteration given
UpdateEntryTo(after) ==
    /\ heap' = [heap EXCEPT ![cfg_ref[1]] = after.cfg]
    /\ safety_margin' = [safety_margin EXCEPT ![1] = after.safety_margin]

\* lines 26-36: one iteration of the loop
UpdateEntry ==
    /\ upc = "loop"
    /\ upending # <<>>
    /\ UpdateEntryTo(ApplyEntry(Self(1), Head(upending)[1], Head(upending)[2]))
    /\ upending' = Tail(upending)
    /\ UNCHANGED <<earlier, experiment, tracker, acquisition, elfin, cfg_ref, ema_offset, brake_direction, last, margin_set, run_len,
                   run_base, nops, cpc, clocal, upc, seen, snaps>>

\* line 38: the loop has ended
UpdateEnd ==
    /\ upc = "loop"
    /\ upending = <<>>
    /\ upc' = "idle"
    /\ last' = [NoCall EXCEPT !.op = "update_config", !.inst = 1]
    /\ UNCHANGED <<earlier, experiment, tracker, acquisition, elfin, heap, cfg_ref, safety_margin, ema_offset, brake_direction,
                   margin_set, run_len, run_base, nops, cpc, clocal, upending, seen, snaps>>

NextThreads ==
    \/ ComputeBegin
    \/ ComputeStopTest
    \/ ComputeMarginTest
    \/ ComputeRaw
    \/ ComputeSmooth
    \/ UpdateBegin
    \/ UpdateEntry
    \/ UpdateEnd

SpecThreads == Init /\ [][NextThreads]_vars

\* ------------------------------------------------- the protocol client alone
\* self, as the methods of the client see it
ElfinSelf == [connected |-> connected, socket |-> socket, sent |-> sent]

\* the effect of a call on the client with outcome r
ElfinReturns(op, message, exchange, refused, r) ==
    /\ connected' = r.connected
    /\ socket' = r.socket
    /\ sent' = r.sent
    /\ called' = [op |-> op, message |-> message,
                  exchange |-> IF r.sent # sent THEN exchange ELSE NoExchange,
                  transmitted |-> r.sent # sent, refused |-> refused,
                  value |-> r.value, raised |-> r.raised]
    /\ ncalls' = ncalls + 1

\* connect(), with the controller reachable or not
Connect ==
    \E reachable \in BOOLEAN :
        ElfinReturns("connect", <<>>, NoExchange, ~reachable, connect(ElfinSelf, reachable))

\* a wrapper that returns what send returned
StatusCommand ==
    \E command \in StatusCommands, exchange \in Exchanges :
        ElfinReturns(command[1], command[2], exchange, FALSE,
                     send(ElfinSelf, command[2], exchange))

ReadPose ==
    \E exchange \in Exchanges :
        ElfinReturns("GetCoordinates", <<"ReadActPos", Comma, ROBOT_ID>>, exchange, FALSE,
                     GetCoordinates(ElfinSelf, exchange))

ReadForces ==
    \E exchange \in Exchanges :
        ElfinReturns("ReadForceSensor", <<"ReadForceSensorData">>, exchange, FALSE,
                     ReadForceSensor(ElfinSelf, exchange))

ReadMotionState ==
    \E exchange \in Exchanges :
        ElfinReturns("GetMotionState", <<"ReadRobotState", Comma, ROBOT_ID>>, exchange, FALSE,
                     GetMotionState(ElfinSelf, exchange))

MoveRelative ==
    \E distance \in ArgumentLists, exchange \in Exchanges :
        ElfinReturns("MoveLinearRelative",
                     IF distance.kind = "list_str" THEN MoveRelLMessage(distance) ELSE <<>>,
                     exchange, FALSE, MoveLinearRelative(ElfinSelf, distance, exchange))

MoveThroughWaypoint ==
    \/ \E start_position \in ArgumentLists :
           ElfinReturns("MoveCircular", <<>>, NoExchange, FALSE,
                        MoveCircular(ElfinSelf, start_position))
    \/ ElfinReturns("MoveLinearWithWaypoint", <<>>, NoExchange, FALSE,
                    MoveLinearWithWaypoint(ElfinSelf))

SetToolMotion ==
    ElfinReturns("SetToolCoordinateMotion", <<>>, NoExchange, FALSE,
                 SetToolCoordinateMotion(ElfinSelf))

NextElfin ==
    /\ ncalls < MaxElfinOps
    /\ \/ Connect
       \/ StatusCommand
       \/ ReadPose
       \/ ReadForces
       \/ ReadMotionState
       \/ MoveRelative
       \/ MoveThroughWaypoint
       \/ SetToolMotion
    /\ UNCHANGED <<repulsion, earlier, tracker, acquisition, experiment, inbound>>

SpecElfin == Init /\ [][NextElfin]_vars

\* ------------------------------------- the client and the controller's replies
\* The controller answers every command it receives, in order, on the
\* connection the command came by; an answer that comes after the receive
\* timeout stays in the socket, and a new socket starts empty.  One receive
\* returns one reply.
Arriving(message) == Append(inbound, ReplyTo(message))

\* what recv does when the replies so far are late, or when the oldest is there
StreamExchange(message, late) ==
    IF late THEN [timed_out |-> TRUE, text |-> <<>>]
    ELSE [timed_out |-> FALSE, text |-> Head(Arriving(message))]

\* the effect of a command with outcome r on the client and on the replies
StreamReturns(op, message, late, r) ==
    /\ ElfinReturns(op, message, StreamExchange(message, late), FALSE, r)
    /\ inbound' = IF r.sent = sent THEN inbound
                  ELSE IF late THEN Arriving(message)
                  ELSE Tail(Arriving(message))

StreamConnect ==
    \E reachable \in BOOLEAN :
        /\ ElfinReturns("connect", <<>>, NoExchange, ~reachable,
                        connect(ElfinSelf, reachable))
        /\ inbound' = IF reachable THEN <<>> ELSE inbound

StreamStatusCommand ==
    \E command \in StatusCommands, late \in BOOLEAN :
        StreamReturns(command[1], command[2], late,
                      send(ElfinSelf, command[2], StreamExchange(command[2], late)))

StreamReadPose ==
    \E late \in BOOLEAN :
        StreamReturns("GetCoordinates", <<"ReadActPos", Comma, ROBOT_ID>>, late,
                      GetCoordinates(ElfinSelf,
                          StreamExchange(<<"ReadActPos", Comma, ROBOT_ID>>, late)))

StreamReadForces ==
    \E late \in BOOLEAN :
        StreamReturns("ReadForceSensor", <<"ReadForceSensorData">>, late,
                      ReadForceSensor(ElfinSelf,
                          StreamExchange(<<"ReadForceSensorData">>, late)))

NextStream ==
    /\ ncalls < MaxStreamOps
    /\ \/ StreamConnect
       \/ StreamStatusCommand
       \/ StreamReadPose
       \/ StreamReadForces
    /\ UNCHANGED <<repulsion, earlier, tracker, acquisition, experiment>>

SpecStream == Init /\ [][NextStream]_vars

\* self, as the methods of the tracker see it
TrackerSelf == [poses |-> poses, m_tracker_to_robot |-> m_tracker_to_robot,
                probe_visible |-> probe_visible, head_visible |-> head_visible,
                coil_visible |-> coil_visible, head_pose |-> head_pose,
                coil_pose |-> coil_pose]

\* the fields of the tracker become those of self
TrackerBecomes(self) ==
    /\ poses' = self.poses
    /\ m_tracker_to_robot' = self.m_tracker_to_robot
    /\ probe_visible' = self.probe_visible
    /\ head_visible' = self.head_visible
    /\ coil_visible' = self.coil_visible
    /\ head_pose' = self.head_pose
    /\ coil_pose' = self.coil_pose

TrackerCalled(call) ==
    /\ tcalled' = [call EXCEPT !.before = objs]
    /\ tprev' = tcalled
    /\ tcalls' = tcalls + 1

SetCoordinatesCall ==
    \E p \in PoseLists, visibilities \in Visibilities :
        /\ TrackerBecomes(SetCoordinates(TrackerSelf, objs, p, visibilities).self)
        /\ objs' = SetCoordinates(TrackerSelf, objs, p, visibilities).objs
        /\ TrackerCalled([NoTrackerCall EXCEPT !.op = "SetCoordinates", !.poses = p,
                                               !.visibilities = visibilities])

\* lines 41-42
SetTrackerToRobotMatrix ==
    \E m \in Calibrations \cup {None} :
        /\ TrackerBecomes([TrackerSelf EXCEPT !.m_tracker_to_robot = m])
        /\ objs' = objs
        /\ TrackerCalled([NoTrackerCall EXCEPT !.op = "SetTrackerToRobotMatrix", !.value = m])

\* the control loop transforms a pose it read from the tracker
TransformPose ==
    \E ref \in {poses[k] : k \in 1..3} \ {NoObject} :
        /\ TrackerBecomes(TrackerSelf)
        /\ objs' = objs
        /\ TrackerCalled([NoTrackerCall EXCEPT
               !.op = "transform_pose_to_robot_space", !.pose = objs[ref],
               !.value = transform_pose_to_robot_space(TrackerSelf, objs[ref]).value,
               !.raised = transform_pose_to_robot_space(TrackerSelf, objs[ref]).raised])

NextTracker ==
    /\ tcalls < MaxTrackerOps
    /\ \/ SetCoordinatesCall
       \/ SetTrackerToRobotMatrix
       \/ TransformPose
    /\ UNCHANGED <<repulsion, earlier, elfin, acquisition, experiment>>

SpecTracker == Init /\ [][NextTracker]_vars

\* ------------------------------- SetCoordinates next to a control-loop reader
\* The acquisition thread runs SetCoordinates one store at a time, on a list
\* of pose lists made for the frame; the control loop reads the tracker
\* between any two of them.  Nothing in coordinates.py takes a lock.
AcqStep(from, to) ==
    /\ apc = from
    /\ apc' = to

\* the call begins: SetCoordinates(poses, visibilities) on a new frame
AcqBegin ==
    /\ nframes < MaxFrames
    /\ AcqStep("idle", "poses")
    /\ \E visibilities \in Visibilities :
        /\ alocal' = [NoAcquisition EXCEPT !.poses = FramePoses(nframes + 1),
                                           !.visibilities = visibilities]
        /\ new_frame' = Frame(SetCoordinates(TrackerSelf, objs, FramePoses(nframes + 1),
                                             visibilities).self,
                              SetCoordinates(TrackerSelf, objs, FramePoses(nframes + 1),
                                             visibilities).objs)
    /\ prev_frame' = new_frame
    /\ nframes' = nframes + 1
    /\ UNCHANGED <<tracker, observed>>

\* line 45
AcqPoses ==
    /\ AcqStep("poses", "probe_visible")
    /\ poses' = alocal.poses
    /\ UNCHANGED <<objs, m_tracker_to_robot, probe_visible, head_visible, coil_visible,
                   head_pose, coil_pose>>

\* lines 47-49
AcqProbeVisible ==
    /\ AcqStep("probe_visible", "head_visible")
    /\ probe_visible' = alocal.visibilities[1]
    /\ UNCHANGED <<objs, poses, m_tracker_to_robot, head_visible, coil_visible,
                   head_pose, coil_pose>>

AcqHeadVisible ==
    /\ AcqStep("head_visible", "coil_visible")
    /\ head_visible' = alocal.visibilities[2]
    /\ UNCHANGED <<objs, poses, m_tracker_to_robot, probe_visible, coil_visible,
                   head_pose, coil_pose>>

AcqCoilVisible ==
    /\ AcqStep("coil_visible", "head_pose")
    /\ coil_visible' = alocal.visibilities[3]
    /\ UNCHANGED <<objs, poses, m_tracker_to_robot, probe_visible, head_visible,
                   head_pose, coil_pose>>

\* lines 51-52
AcqHeadPose ==
    /\ AcqStep("head_pose", "coil_pose")
    /\ head_pose' = alocal.poses[2]
    /\ UNCHANGED <<objs, poses, m_tracker_to_robot, probe_visible, head_visible,
                   coil_visible, coil_pose>>

AcqCoilPose ==
    /\ AcqStep("coil_pose", "head_read")
    /\ coil_pose' = alocal.poses[3]
    /\ UNCHANGED <<objs, poses, m_tracker_to_robot, probe_visible, head_visible,
                   coil_visible, head_pose>>

AcqFields ==
    /\ \/ AcqPoses
       \/ AcqProbeVisible
       \/ AcqHeadVisible
       \/ AcqCoilVisible
       \/ AcqHeadPose
       \/ AcqCoilPose
    /\ UNCHANGED <<alocal, tcalled, tprev, tcalls, observed, prev_frame, new_frame, nframes>>

\* lines 59 and 60: the right-hand side of the swap is read first, then
\* component 3 is stored, then component 5
AcqSwapRead(from, to, ref) ==
    /\ AcqStep(from, to)
    /\ alocal' = [alocal EXCEPT !.rx = objs[ref][4], !.rz = objs[ref][6]]
    /\ UNCHANGED <<tracker, observed, prev_frame, new_frame, nframes>>

AcqSwapStore(from, to, ref, component, value) ==
    /\ AcqStep(from, to)
    /\ objs' = [objs EXCEPT ![ref][component] = value]
    /\ UNCHANGED <<poses, m_tracker_to_robot, probe_visible, head_visible, coil_visible,
                   head_pose, coil_pose, tcalled, tprev, tcalls,
                   alocal, observed, prev_frame, new_frame, nframes>>

AcqSwapHead ==
    \/ AcqSwapRead("head_read", "head_rx", head_pose)
    \/ AcqSwapStore("head_rx", "head_rz", head_pose, 4, alocal.rz)
    \/ AcqSwapStore("head_rz", "coil_read", head_pose, 6, alocal.rx)

AcqSwapCoil ==
    \/ AcqSwapRead("coil_read", "coil_rx", coil_pose)
    \/ AcqSwapStore("coil_rx", "coil_rz", coil_pose, 4, alocal.rz)
    \/ AcqSwapStore("coil_rz", "idle", coil_pose, 6, alocal.rx)

\* the control loop reads the poses and the flags of the tracker
Observe ==
    /\ observed' = Observation(Frame(TrackerSelf, objs), prev_frame, new_frame)
    /\ UNCHANGED <<tracker, apc, alocal, prev_frame, new_frame, nframes>>

NextAcquisition ==
    /\ \/ AcqBegin
       \/ AcqFields
       \/ AcqSwapHead
       \/ AcqSwapCoil
       \/ Observe
    /\ UNCHANGED <<repulsion, earlier, elfin, experiment>>

SpecAcquisition == Init /\ [][NextAcquisition]_vars

\* ------------------------------------------------------ the experiment alone
\* self, as the methods of the experiment see it
ExperimentSelf ==
    [state |-> state, current_trial |-> current_trial,
     completed_trials |-> completed_trials, trial_data |-> trial_data,
     start_time |-> start_time, trial_results |-> trial_results]

\* the effect of the call op with outcome r
ExperimentReturns(op, r) ==
    /\ state' = r.self.state
    /\ current_trial' = r.self.current_trial
    /\ completed_trials' = r.self.completed_trials
    /\ trial_data' = r.self.trial_data
    /\ start_time' = r.self.start_time
    /\ trial_results' = r.self.trial_results
    /\ ecalled' = [op |-> op, value |-> r.value, raised |-> r.raised]

ArmTrial == ExperimentReturns("arm_trial", arm_trial(ExperimentSelf))

StartRecording ==
    \E t \in StartTimes :
        ExperimentReturns("start_recording", start_recording(ExperimentSelf, t))

\* the control loop passes a sample; the list of samples is capped
Update ==
    /\ Len(trial_data) < MaxSamples
    /\ \E timestamp \in Timestamps :
           ExperimentReturns("update", update(ExperimentSelf, timestamp))

StopRecording ==
    \E writable \in BOOLEAN :
        ExperimentReturns("stop_recording", stop_recording(ExperimentSelf, writable))

CancelCurrentTrial ==
    ExperimentReturns("cancel_current_trial", cancel_current_trial(ExperimentSelf))

ExportSummary ==
    \E writable \in BOOLEAN :
        ExperimentReturns("export_summary", export_summary(ExperimentSelf, writable))

NextExperiment ==
    /\ \/ ArmTrial
       \/ StartRecording
       \/ Update
       \/ StopRecording
       \/ CancelCurrentTrial
       \/ ExportSummary
    /\ UNCHANGED <<repulsion, earlier, elfin, tracker, acquisition>>

SpecExperiment == Init /\ [][NextExperiment]_vars

\* ====================================================================== claims
\* the receiver of the most recent call, as it is now
Cfg(i) == heap[cfg_ref[i]]

IsCompute == last.op = "compute_offset"

\* C1: a known distance below cfg.stop_distance makes compute_offset return
\* stop_now = True and the current brake_direction, whatever dt, the smoothed
\* offset, safety_margin and working_distance are.
C1_StopOverrides ==
    (/\ IsCompute
     /\ last.distance # None
     /\ RLt(last.distance, Cfg(last.inst)["stop_distance"]))
    => (/\ last.stop_now
        /\ ~last.raised
        /\ last.offset = brake_direction[last.inst])

\* a stop taken at a distance that is below the stop threshold but not below
\* the live margin, with a direction set
C1_Witness ==
    /\ IsCompute
    /\ last.distance # None
    /\ RLt(last.distance, Cfg(last.inst)["stop_distance"])
    /\ safety_margin[last.inst] # None
    /\ RLe(safety_margin[last.inst], last.distance)
    /\ brake_direction[last.inst] # Zeros3
    /\ last.stop_now

IsUpdateConfig == last.op = "update_config"

\* the keys of a mapping, and the value it gives to key k
Keys(config_updates) ==
    {config_updates.items[n][1] : n \in 1..Len(config_updates.items)}

ValueOf(config_updates, k) ==
    config_updates.items[CHOOSE n \in 1..Len(config_updates.items) :
                             config_updates.items[n][1] = k][2]

\* C3: update_config with only unrecognized keys, or with something that is
\* not a mapping, leaves cfg (its keys included), the live safety_margin, the
\* smoothed offset and brake_direction as they were.
C3_RejectedUpdateChangesNothing ==
    [][(/\ IsUpdateConfig'
        /\ \/ ~last'.config_updates.is_dict
           \/ Keys(last'.config_updates) \cap DOMAIN Cfg(last'.inst) = {})
       => UNCHANGED <<heap, cfg_ref, safety_margin, ema_offset, brake_direction>>]_vars

\* update_config({'bogus': 1}) has returned
C3_Witness ==
    /\ IsUpdateConfig
    /\ last.config_updates.is_dict
    /\ Keys(last.config_updates) # {}
    /\ Keys(last.config_updates) \cap DOMAIN Cfg(last.inst) = {}

\* C4: after update_config with a mapping, cfg is the old cfg overridden by
\* exactly the entries whose key cfg already had, in whatever order the entries
\* come.
C4_RecognizedEntriesApplied ==
    [][(IsUpdateConfig' /\ last'.config_updates.is_dict)
       => heap'[cfg_ref'[last'.inst]] =
              [k \in DOMAIN Cfg(last'.inst) |->
                  IF k \in Keys(last'.config_updates)
                  THEN ValueOf(last'.config_updates, k)
                  ELSE Cfg(last'.inst)[k]]]_vars

\* an unrecognized key came first and a recognized one after it, and the
\* recognized one took effect
C4_Witness ==
    /\ IsUpdateConfig
    /\ Len(last.config_updates.items) = 2
    /\ last.config_updates.items[1][1] \notin DOMAIN Cfg(last.inst)
    /\ last.config_updates.items[2][1] = "strength"
    /\ Cfg(last.inst)["strength"] = last.config_updates.items[2][2]
    /\ Cfg(last.inst)["strength"] # REPULSION_CONFIG["strength"]

\* C5: calls on one controller leave the other controller's cfg, live
\* safety_margin, brake_direction and smoothed offset as they were.
C5_InstancesIndependent ==
    [][\A i \in Inst :
          last'.inst # i
          => /\ heap'[cfg_ref'[i]] = heap[cfg_ref[i]]
             /\ safety_margin'[i] = safety_margin[i]
             /\ brake_direction'[i] = brake_direction[i]
             /\ ema_offset'[i] = ema_offset[i]]_vars

\* controller 1 has been reconfigured and controller 2 has its initial fields
C5_Witness ==
    /\ last.inst = 1
    /\ IsUpdateConfig
    /\ Cfg(1)["strength"] # REPULSION_CONFIG["strength"]
    /\ Cfg(2) = REPULSION_CONFIG
    /\ safety_margin[1] # safety_margin[2]

\* the approach-zone magnitude the specification gives for margin m
ApproachFormula(strength, m, wd, d) ==
    RMul(strength, RPow(RDiv(RSub(m, d), RSub(m, wd)), 2))

\* C6: the live safety margin is the value most recently set by update_config
\* (key 'safety_margin', which sets cfg['safety_margin'] too) or by
\* update_safety_margin (which leaves cfg alone), and it is the margin
\* compute_offset compares the distance with and uses in the approach zone.
C6_LiveMarginIsLastSet ==
    [][/\ \A i \in Inst : safety_margin'[i] = margin_set'[i]
       /\ (IsUpdateConfig' /\ "safety_margin" \in Keys(last'.config_updates))
          => /\ heap'[cfg_ref'[last'.inst]]["safety_margin"]
                  = ValueOf(last'.config_updates, "safety_margin")
             /\ safety_margin'[last'.inst]
                  = ValueOf(last'.config_updates, "safety_margin")
       /\ last'.op = "update_safety_margin"
          => /\ safety_margin'[last'.inst] = last'.value
             /\ heap' = heap
       /\ (IsCompute' /\ ~last'.stop_now /\ last'.distance # None)
          => /\ last'.zone # "NONE"
                  <=> /\ margin_set[last'.inst] # None
                      /\ RLt(last'.distance, margin_set[last'.inst])
             /\ last'.zone = "APPROACH"
                  => last'.brake_magnitude =
                         ApproachFormula(Cfg(last'.inst)["strength"],
                                         margin_set[last'.inst],
                                         Cfg(last'.inst)["working_distance"],
                                         last'.distance)]_vars

\* an approach-zone call made under a margin that update_safety_margin set
\* after update_config had set another one
C6_Witness ==
    /\ IsCompute
    /\ last.zone = "APPROACH"
    /\ safety_margin[last.inst] # Cfg(last.inst)["safety_margin"]
    /\ Cfg(last.inst)["safety_margin"] # REPULSION_CONFIG["safety_margin"]

\* C7: compute_offset with distance None does not raise, returns stop_now =
\* False whatever stop_distance is, uses a zero raw offset and returns (and
\* keeps) the previous smoothed offset multiplied by ema.
C7_UnknownDistanceDecays ==
    (IsCompute /\ last.distance = None)
    => /\ ~last.raised
       /\ ~last.stop_now
       /\ last.raw_offset = Zeros3
       /\ last.offset = VScale(Cfg(last.inst)["ema"], last.prev_offset)
       /\ ema_offset[last.inst] = last.offset

\* a call with distance None that found a smoothed offset in memory
C7_Witness ==
    /\ IsCompute
    /\ last.distance = None
    /\ last.prev_offset # Zeros3
    /\ last.offset # last.prev_offset
    /\ last.offset # Zeros3

\* C8: the approach-zone formula is used only for working_distance < distance
\* < live margin, so its divisor is never zero; when the live margin is at most
\* working_distance every braking distance gets the working-zone formula.
C8_ApproachDivisorNonZero ==
    IsCompute
    => /\ last.zone = "APPROACH"
          => /\ ~last.raised
             /\ safety_margin[last.inst] # None
             /\ RLt(Cfg(last.inst)["working_distance"], last.distance)
             /\ RLt(last.distance, safety_margin[last.inst])
             /\ RSub(safety_margin[last.inst], Cfg(last.inst)["working_distance"]) # Zero
       /\ (/\ last.zone # "NONE"
           /\ RLe(safety_margin[last.inst], Cfg(last.inst)["working_distance"]))
          => last.zone = "WORKING"

\* a braking call made while the live margin equals working_distance
C8_Witness ==
    /\ IsCompute
    /\ last.zone = "WORKING"
    /\ ~last.raised
    /\ safety_margin[last.inst] = Cfg(last.inst)["working_distance"]
    /\ last.brake_magnitude # None

\* the working-zone magnitude the specification gives
WorkingFormula(strength, wd, d) ==
    RMul(strength, NpExp(RMul(<<2, 1>>, RSub(One, RDiv(d, wd)))))

\* C9: for a known distance with stop_distance <= distance < live margin,
\* compute_offset returns stop_now = False and its raw offset is magnitude *
\* brake_direction * dt, the magnitude being the approach-zone formula exactly
\* when distance > working_distance and the working-zone formula otherwise.
C9_ZoneMagnitude ==
    (/\ IsCompute
     /\ last.distance # None
     /\ RLe(Cfg(last.inst)["stop_distance"], last.distance)
     /\ safety_margin[last.inst] # None
     /\ RLt(last.distance, safety_margin[last.inst]))
    => /\ ~last.stop_now
       /\ ~last.raised
       /\ last.zone = IF RLt(Cfg(last.inst)["working_distance"], last.distance)
                      THEN "APPROACH" ELSE "WORKING"
       /\ last.brake_magnitude =
              IF RLt(Cfg(last.inst)["working_distance"], last.distance)
              THEN ApproachFormula(Cfg(last.inst)["strength"], safety_margin[last.inst],
                                   Cfg(last.inst)["working_distance"], last.distance)
              ELSE WorkingFormula(Cfg(last.inst)["strength"],
                                  Cfg(last.inst)["working_distance"], last.distance)
       /\ last.raw_offset =
              VScale(RMul(last.brake_magnitude, last.dt), brake_direction[last.inst])

\* a working-zone call strictly inside the zone, with a direction set
C9_Witness ==
    /\ IsCompute
    /\ last.zone = "WORKING"
    /\ RLt(last.distance, Cfg(last.inst)["working_distance"])
    /\ last.raw_offset # Zeros3
    /\ RLt(Cfg(last.inst)["strength"], last.brake_magnitude)

\* C10: after n consecutive compute_offset calls with a known distance that is
\* neither below stop_distance nor below the live margin, the raw offset was
\* zero each time and the smoothed offset is ema^n times what it was before the
\* first of them.
C10_GeometricDecay ==
    \A i \in Inst :
        run_len[i] > 0
        => /\ ema_offset[i] = VScale(RPow(Cfg(i)["ema"], run_len[i]), run_base[i])
           /\ (IsCompute /\ last.inst = i)
              => (last.raw_offset = Zeros3 /\ ~last.stop_now /\ ~last.raised)

\* two such calls in a row, starting from a smoothed offset that was not zero
C10_Witness ==
    /\ run_len[1] = 2
    /\ run_base[1] # Zeros3
    /\ ema_offset[1] # Zeros3

\* C2: with update_config on one thread and compute_offset on another, every
\* compute_offset call uses the values of one configuration as a whole: all
\* that it read is found together in the configuration before or in the one
\* after an update.
C2_NoMixedConfiguration ==
    seen # {} => \E snap \in snaps : \A r \in seen : SnapshotField(snap, r[1]) = r[2]

VNeg(v) == <<RNeg(v[1]), RNeg(v[2]), RNeg(v[3])>>

VSub(u, v) == VAdd(u, VNeg(v))

\* the most recent call is a compute_offset that returned a smoothed offset
IsSmoothed == IsCompute /\ ~last.stop_now /\ ~last.raised

\* C11: a compute_offset call that smooths moves the smoothed offset towards
\* the raw offset: the difference between the smoothed and the raw offset is
\* multiplied by ema, so a smoothed offset equal to the raw offset stays
\* equal, and repeated calls with the same raw offset converge to it.
C11_EmaContractsToRaw ==
    IsSmoothed =>
        /\ VSub(last.offset, last.raw_offset)
               = VScale(Cfg(last.inst)["ema"], VSub(last.prev_offset, last.raw_offset))
        /\ last.prev_offset = last.raw_offset => last.offset = last.raw_offset

C11_Witness ==
    /\ IsSmoothed
    /\ last.raw_offset # Zeros3
    /\ last.prev_offset # Zeros3
    /\ last.prev_offset # last.raw_offset
    /\ last.offset # last.prev_offset

\* the most recent call is a compute_offset at distance == working_distance
\* that braked
AtZoneBoundary ==
    /\ IsSmoothed
    /\ last.zone # "NONE"
    /\ last.distance = WorkingDistance(Self(last.inst))

\* C12: at distance == working_distance the approach-zone formula and the
\* working-zone formula both give strength, and strength is the magnitude
\* compute_offset uses there.
C12_BoundaryMagnitudeIsStrength ==
    AtZoneBoundary =>
        /\ last.brake_magnitude = Cfg(last.inst)["strength"]
        /\ ApproachFormula(Cfg(last.inst)["strength"], safety_margin[last.inst],
                           last.distance, last.distance) = Cfg(last.inst)["strength"]
        /\ WorkingFormula(Cfg(last.inst)["strength"], last.distance, last.distance)
               = Cfg(last.inst)["strength"]

C12_Witness ==
    /\ AtZoneBoundary
    /\ last.zone = "WORKING"
    /\ last.distance = <<50, 1>>
    /\ Cfg(last.inst)["strength"] = <<400, 1>>

\* the scenario of the specification: the configuration, the direction, the
\* arguments and the zero smoothed offset before the call
ConcreteScenario ==
    /\ IsCompute
    /\ safety_margin[last.inst] = <<65, 1>>
    /\ Cfg(last.inst) = [strength |-> <<240, 1>>, safety_margin |-> <<65, 1>>,
                         stop_distance |-> <<20, 1>>, ema |-> <<3, 10>>,
                         working_distance |-> <<15, 1>>]
    /\ brake_direction[last.inst] = <<One, Zero, Zero>>
    /\ last.prev_offset = Zeros3
    /\ last.distance = <<50, 1>>
    /\ last.dt = <<1, 100>>

\* C13: with safety_margin 65, stop_distance 20, strength 240,
\* working_distance 15, ema 0.3, brake_direction (1, 0, 0) and a zero smoothed
\* offset, compute_offset(50, 0.01) uses magnitude 21.6 and raw offset
\* (0.216, 0, 0) and returns (0.1512, 0, 0) with stop_now False.
C13_ConcreteScenario ==
    ConcreteScenario =>
        /\ ~last.stop_now
        /\ ~last.raised
        /\ last.brake_magnitude = <<108, 5>>
        /\ last.raw_offset = <<(<<27, 125>>), Zero, Zero>>
        /\ last.offset = <<(<<189, 1250>>), Zero, Zero>>

C13_Witness == ConcreteScenario /\ last.zone = "APPROACH"

\* a is smaller than b
RLess(a, b) == RSub(a, b)[1] < 0

RAbs(a) == <<Abs(a[1]), a[2]>>

\* v is larger than w: no component of v is smaller in absolute value than
\* that of w, and one at least is larger
VLarger(v, w) ==
    /\ \A k \in 1..3 : ~RLess(RAbs(v[k]), RAbs(w[k]))
    /\ \E k \in 1..3 : RLess(RAbs(w[k]), RAbs(v[k]))

\* the three most recent calls are compute_offset(d, dt) that braked,
\* update_config({'strength': s2}), and compute_offset(d, dt) again
StrengthRetuned ==
    /\ Len(earlier) = 2
    /\ earlier[2].call.op = "compute_offset"
    /\ ~earlier[2].call.stop_now
    /\ ~earlier[2].call.raised
    /\ earlier[2].call.zone # "NONE"
    /\ earlier[1].call.op = "update_config"
    /\ earlier[1].call.config_updates.is_dict
    /\ Keys(earlier[1].call.config_updates) = {"strength"}
    /\ IsSmoothed
    /\ last.distance = earlier[2].call.distance
    /\ last.dt = earlier[2].call.dt

\* the strength before the update (s1) and after it (s2)
StrengthBefore == earlier[2].self.cfg["strength"]

StrengthAfter == Cfg(1)["strength"]

\* the magnitude and the raw offset after the update are s2/s1 times those
\* before it
ScaledByStrength ==
    /\ RMul(last.brake_magnitude, StrengthBefore)
           = RMul(earlier[2].call.brake_magnitude, StrengthAfter)
    /\ VScale(StrengthBefore, last.raw_offset)
           = VScale(StrengthAfter, earlier[2].call.raw_offset)

\* C14 as claimed: after update_config({'strength': s2}), s2 > s1, the
\* magnitude and the raw offset at the same distance and dt are s2/s1 times
\* those before the update, and the value returned is larger than the value
\* returned before the update.
C14_StrongerAlwaysReturnsLarger ==
    (StrengthRetuned /\ RLess(StrengthBefore, StrengthAfter))
        => /\ ScaledByStrength
           /\ VLarger(last.offset, earlier[2].call.offset)

\* C14 as amended: the magnitude and the raw offset are s2/s1 times those
\* before the update; the value returned is larger than the one returned
\* before the update when s2 > s1, brake_direction is not the zero vector
\* and the smoothed offset was zero before the first of the two calls.
C14_StrengthScalesMagnitude ==
    StrengthRetuned
        => /\ ScaledByStrength
           /\ (/\ RLess(StrengthBefore, StrengthAfter)
               /\ brake_direction[1] # Zeros3
               /\ earlier[2].call.prev_offset = Zeros3)
                  => VLarger(last.offset, earlier[2].call.offset)

C14_Witness ==
    /\ StrengthRetuned
    /\ StrengthBefore = <<240, 1>>
    /\ StrengthAfter = <<400, 1>>
    /\ brake_direction[1] = <<One, Zero, Zero>>
    /\ last.distance = <<50, 1>>
    /\ last.dt = <<1, 100>>
    /\ earlier[2].call.offset = <<(<<189, 1250>>), Zero, Zero>>
    /\ last.brake_magnitude = <<36, 1>>
    /\ VLarger(last.offset, earlier[2].call.offset)

\* the call before the most recent one took the emergency stop, and the most
\* recent one smoothed
StoppedThenSmoothed ==
    /\ earlier # <<>>
    /\ earlier[1].call.op = "compute_offset"
    /\ earlier[1].call.stop_now
    /\ IsSmoothed

\* C25: a compute_offset call that takes the emergency stop leaves the stored
\* smoothed offset as it was, and the first call after it that smooths
\* continues from the value held before the stop.
C25_StopKeepsSmoothedOffset ==
    /\ (IsCompute /\ last.stop_now) => ema_offset[last.inst] = last.prev_offset
    /\ StoppedThenSmoothed =>
           /\ last.prev_offset = earlier[1].call.prev_offset
           /\ last.offset = VAdd(VScale(Cfg(1)["ema"], earlier[1].call.prev_offset),
                                 VScale(RSub(One, Cfg(1)["ema"]), last.raw_offset))

\* a stop met with a smoothed offset in memory, then a call that smooths
C25_Witness ==
    /\ StoppedThenSmoothed
    /\ earlier[1].call.prev_offset # Zeros3
    /\ last.offset # Zeros3

\* the most recent call braked along the direction the controller holds
UsesHeldDirection ==
    /\ (IsCompute /\ last.stop_now) => last.offset = brake_direction[last.inst]
    /\ (IsSmoothed /\ last.zone # "NONE") =>
           last.raw_offset = VScale(last.dt, VScale(last.brake_magnitude,
                                                    brake_direction[last.inst]))

\* a step that is a compute_offset call leaves the direction, the
\* configuration and the live margin alone
ComputeLeavesSettings ==
    last'.op = "compute_offset" =>
        UNCHANGED <<brake_direction, heap, cfg_ref, safety_margin>>

\* a step that changes the direction is update_opposite_coil_vector, and the
\* direction becomes its argument
OnlySetterChangesDirection ==
    brake_direction' # brake_direction =>
        /\ last'.op = "update_opposite_coil_vector"
        /\ brake_direction'[last'.inst] = last'.value

\* C26: compute_offset never changes brake_direction, cfg or the live margin;
\* the direction it uses and leaves behind is the one most recently passed to
\* update_opposite_coil_vector, the zero vector if none was, and only
\* update_opposite_coil_vector changes it.
C26_DirectionSetOnlyBySetter ==
    /\ \A i \in Inst : brake_direction[i] = Zeros3
    /\ [](UsesHeldDirection)
    /\ [][ComputeLeavesSettings /\ OnlySetterChangesDirection]_vars

\* a call that braked along a direction set before it, under a retuned
\* configuration
C26_Witness ==
    /\ IsSmoothed
    /\ last.zone # "NONE"
    /\ last.raw_offset # Zeros3
    /\ brake_direction[1] = <<Zero, <<-3, 5>>, <<4, 5>>>>

\* -------------------------------------------------- claims on the client
\* the fields of the reply the most recent call received
ReplyFields == Split(called.exchange.text)

\* the most recent call transmitted its command and recv returned a reply
GotReply == called.transmitted /\ ~called.exchange.timed_out

\* the wrappers that return what send returned
StatusOps == {command[1] : command \in StatusCommands}

\* C15: after a connect that failed the client is disconnected and connect
\* has not raised, also when an earlier connect had succeeded.
C15_FailedConnectDisconnects ==
    (called.op = "connect" /\ called.refused) => (~connected /\ called.raised = "")

\* C16: when the receive of a send times out the command has been
\* transmitted exactly once, connected is False and send returned False (seen
\* in the wrappers that return what send returned); connected turns True
\* again only in a connect that succeeds.
C16_TimeoutDisconnectsWithoutRetry ==
    [][/\ (ncalls' # ncalls /\ called'.transmitted /\ called'.exchange.timed_out)
            => /\ sent' = Append(sent, Encode(called'.message))
               /\ ~connected'
               /\ called'.op \in StatusOps
                      => (called'.raised = "" /\ called'.value = PyBool(FALSE))
       /\ (~connected /\ connected') => (called'.op = "connect" /\ ~called'.refused)
      ]_vars

C16_Witness ==
    /\ called.op \in StatusOps
    /\ called.transmitted
    /\ called.exchange.timed_out
    /\ ~connected
    /\ Len(sent) = 2

\* a reply with status OK whose fields after the status are six numbers
IsQuotedPose(data) ==
    /\ Len(data) = 8
    /\ data[2] = "OK"
    /\ \A k \in 3..8 : IsFloatText(data[k])

\* a reply with status OK in the controller's layout: at least twelve
\* numeric fields after the status, then one final field
IsControllerPose(data) ==
    /\ Len(data) >= 15
    /\ data[2] = "OK"
    /\ \A k \in 3..(Len(data) - 1) : IsFloatText(data[k])

\* C17 as claimed: for an OK reply carrying the six pose values as payload
\* (such as "1,OK,10.0,20.0,30.0,0,0,0") GetCoordinates returns the six
\* values, translation first, and send drops none of them.
C17_PoseFromSixFieldPayload ==
    (called.op = "GetCoordinates" /\ GotReply /\ IsQuotedPose(ReplyFields))
        => /\ called.raised = ""
           /\ called.value.kind = "list_num"
           /\ Len(called.value.nums) = 6
           /\ \A k \in 1..6 : called.value.nums[k] = FloatTable[ReplyFields[2 + k]]

\* C17 as amended: for an OK reply with at least twelve numeric payload
\* fields followed by a final field, GetCoordinates returns the 6-element
\* pose made of payload fields 7 to 12, translation first, rotation last.
C17_PoseFromControllerLayout ==
    (called.op = "GetCoordinates" /\ GotReply /\ IsControllerPose(ReplyFields))
        => /\ called.raised = ""
           /\ called.value.kind = "list_num"
           /\ Len(called.value.nums) = 6
           /\ \A k \in 1..6 : called.value.nums[k] = FloatTable[ReplyFields[8 + k]]

C17_Witness ==
    /\ called.op = "GetCoordinates"
    /\ GotReply
    /\ called.exchange.text = PoseReply
    /\ called.value = PyNums(<<(<<10, 1>>), <<20, 1>>, <<30, 1>>, Zero, One, <<3, 2>>>>)

\* C18: for a reply whose status field is not "OK" the call does not raise
\* and returns a false value (ReadForceSensor returns its six zeros instead).
C18_NonOkStatusFailsQuietly ==
    (GotReply /\ Len(ReplyFields) >= 2 /\ ReplyFields[2] # "OK")
        => /\ called.raised = ""
           /\ called.op # "ReadForceSensor" => ~Truthy(called.value)

\* a reply to ReadRobotState with status OK and the moving and error flags
\* reported as 0 or 1
IsStateReply(data) ==
    /\ Len(data) >= 6
    /\ data[2] = "OK"
    /\ data[3] \in {"0", "1"}
    /\ data[5] \in {"0", "1"}

\* C19: GetMotionState returns ERROR when the error flag is set, IN_MOTION
\* when only the moving flag is set, FREE_TO_MOVE when both flags are clear.
C19_MotionStateFromFlags ==
    (called.op = "GetMotionState" /\ GotReply /\ IsStateReply(ReplyFields))
        => called.value = PyState(IF ReplyFields[5] = "1" THEN "ERROR"
                                  ELSE IF ReplyFields[3] = "1" THEN "IN_MOTION"
                                  ELSE "FREE_TO_MOVE")

\* an OK reply that carries a payload: more than three fields
HasPayload(data) == Len(data) > 3 /\ data[2] = "OK"

\* the exchanges C20 speaks of: a timeout, or a reply with a status field
\* (and, when the status is Fail, an error code after it)
IsForceExchange ==
    \/ called.exchange.timed_out
    \/ /\ Len(ReplyFields) >= 2
       /\ ReplyFields[2] = "Fail" => Len(ReplyFields) >= 3

\* an OK reply with six numbers between the status and the final field
IsForceReading(data) ==
    /\ Len(data) = 9
    /\ data[2] = "OK"
    /\ \A k \in 3..8 : IsFloatText(data[k])

\* C20: ReadForceSensor never raises and returns a list of numbers: six zeros
\* when the exchange failed (timeout, Fail, unrecognized status) or the OK
\* reply has no payload, the six payload values of a successful read.
C20_ForceSensorAlwaysSixNumbers ==
    (called.op = "ReadForceSensor" /\ called.transmitted /\ IsForceExchange)
        => /\ called.raised = ""
           /\ called.value.kind = "list_num"
           /\ (called.exchange.timed_out \/ ~HasPayload(ReplyFields))
                  => called.value.nums = SixZeros
           /\ (~called.exchange.timed_out /\ IsForceReading(ReplyFields))
                  => called.value.nums = [k \in 1..6 |-> FloatTable[ReplyFields[2 + k]]]


\* the operations that hand the outcome of send to the caller as it is
CommandOps ==
    StatusOps \cup {"MoveLinearRelative", "MoveCircular", "MoveLinearWithWaypoint",
                    "SetToolCoordinateMotion"}

\* the step is a call of an operation other than connect on a client that
\* has a socket
OperationStep == ncalls' # ncalls /\ called'.op # "connect" /\ socket # 0

\* value is the outcome of an exchange that received the fields data: True
\* or the payload after OK, a failure value otherwise
IsOutcomeOf(value, data) ==
    IF Len(data) >= 2 /\ data[2] = "OK"
    THEN value = IF Len(data) > 3 THEN PyStrs(SliceButLast(data, 2)) ELSE PyBool(TRUE)
    ELSE ~Truthy(value)

\* the call returned the outcome of its exchange
ReturnedOutcome ==
    /\ called.raised = ""
    /\ IF called.exchange.timed_out THEN ~Truthy(called.value)
       ELSE IsOutcomeOf(called.value, ReplyFields)

\* C27: every operation of the client makes exactly one send of its encoded
\* command, and MoveLinearRelative, MoveCircular, MoveLinearWithWaypoint,
\* SetToolCoordinateMotion and the status commands return the outcome of
\* that exchange: True or the payload on an OK reply, a failure value
\* otherwise.
C27_OneSendAndItsOutcome ==
    [][OperationStep =>
          /\ sent' = Append(sent, Encode(called'.message))
          /\ (called'.op \in CommandOps /\ IsForceExchange') => ReturnedOutcome']_vars

\* the exchange of the most recent call yielded no payload
NoPayload ==
    /\ called.transmitted
    /\ called.exchange.timed_out \/ ~HasPayload(ReplyFields)

\* C28: GetCoordinates, ReadForceSensor and GetMotionState return a value and
\* do not raise when the exchange yielded no payload, and send does not
\* raise on a reply of fewer than two fields.
C28_NoPayloadNeverRaises ==
    /\ (called.op \in {"GetCoordinates", "ReadForceSensor", "GetMotionState"} /\ NoPayload)
           => called.raised = ""
    /\ (GotReply /\ Len(ReplyFields) < 2) => called.raised = ""

\* C29: the reply a send receives is the controller's reply to the command
\* that this send transmitted, also after an earlier send timed out.
C29_ReplyAnswersItsCommand ==
    GotReply => called.exchange.text = ReplyTo(called.message)

\* ------------------------------------------------- claims on the tracker
\* C21: a control-loop reader that reads the tracker while SetCoordinates
\* runs on the acquisition thread sees the complete previous frame or the
\* complete new frame (new poses with new flags, head and coil poses
\* normalized), never a mixture of the two.
C21_ReaderSeesWholeFrame ==
    observed.frame \in {observed.previous, observed.new}

\* C22: after any sequence of SetCoordinates calls every stored pose (probe,
\* head and coil) is the delivered pose with rx and rz swapped once.
C22_StoredPosesSwappedOnce ==
    tcalled.op = "SetCoordinates"
        => \A k \in 1..3 : objs[poses[k]] = SwapRxRz(DeliveredPose(poses[k]))

\* the two most recent calls were SetCoordinates and each swapped the pose
\* object ref once: it was the head or the coil of the call, not both
SwapsOnce(call, ref) ==
    /\ call.op = "SetCoordinates"
    /\ (call.poses[2] = ref) # (call.poses[3] = ref)

SwappedTwice(ref) == SwapsOnce(tprev, ref) /\ SwapsOnce(tcalled, ref)

\* C23: a pose that SetCoordinates swapped in each of two successive calls is
\* the original pose again, and each swap left components 0, 1, 2 and 4 as
\* they were.
C23_SwapTwiceIsIdentity ==
    \A ref \in PoseRefs :
        /\ SwappedTwice(ref) => objs[ref] = tprev.before[ref]
        /\ SwapsOnce(tcalled, ref) =>
               /\ \A c \in {1, 2, 3, 5} : objs[ref][c] = tcalled.before[ref][c]
               /\ objs[ref][4] = tcalled.before[ref][6]
               /\ objs[ref][6] = tcalled.before[ref][4]

C23_Witness ==
    /\ SwappedTwice(2)
    /\ tcalled.before[2] = SwapRxRz(DeliveredPose(2))
    /\ objs[2] = DeliveredPose(2)
    /\ objs[2] # tcalled.before[2]

\* C24: with no calibration set, transform_pose_to_robot_space returns the
\* input pose unchanged and does not raise.
C24_NoCalibrationReturnsInput ==
    (tcalled.op = "transform_pose_to_robot_space" /\ m_tracker_to_robot = None)
        => /\ tcalled.raised = ""
           /\ tcalled.value = tcalled.pose

\* ---------------------------------------------- claims on the experiment
\* the changes of state the workflow allows, with the method that makes each;
\* stop_recording passes through SAVING
Transitions ==
    {<<IDLE, "arm_trial", ARMED>>, <<ARMED, "start_recording", RECORDING>>,
     <<RECORDING, "stop_recording", SAVING>>, <<RECORDING, "stop_recording", IDLE>>,
     <<ARMED, "cancel_current_trial", IDLE>>, <<RECORDING, "cancel_current_trial", IDLE>>}

\* the states a method acts in
ActsIn(op) == {t[1] : t \in {u \in Transitions : u[2] = op}}

TrialOps == {"arm_trial", "start_recording", "stop_recording", "cancel_current_trial"}

\* a step changes the state only along a transition of the workflow
AlongWorkflow ==
    state' # state => <<state, ecalled'.op, state'>> \in Transitions

\* a step that calls a method in a state it does not act in returns False
\* and changes nothing of state, current_trial and completed_trials
RefusedElsewhere ==
    (ecalled'.op \in TrialOps /\ state \notin ActsIn(ecalled'.op))
        => /\ ecalled'.value = "False"
           /\ ecalled'.raised = ""
           /\ UNCHANGED <<state, current_trial, completed_trials>>

\* a recording starts from ARMED only, for the trial that was armed
RecordsArmedTrial ==
    (state' = RECORDING /\ state # RECORDING)
        => /\ state = ARMED
           /\ current_trial' = current_trial
           /\ current_trial = completed_trials + 1

\* C30: the state changes only along IDLE -> ARMED (arm_trial), ARMED ->
\* RECORDING (start_recording), RECORDING -> SAVING -> IDLE (stop_recording)
\* and ARMED or RECORDING -> IDLE (cancel_current_trial); each of these
\* methods called in another state returns False and leaves state,
\* current_trial and completed_trials as they were, so a recording never
\* starts for a trial that was not armed.
C30_WorkflowTransitionsOnly ==
    [][AlongWorkflow /\ RefusedElsewhere /\ RecordsArmedTrial]_vars

\* the second trial is recording, and an arm_trial made meanwhile was refused
C30_Witness ==
    /\ state = RECORDING
    /\ completed_trials = 1
    /\ current_trial = 2
    /\ ecalled.op = "arm_trial"
    /\ ecalled.value = "False"

\* the trials are all done
AllTrialsDone == completed_trials = MaxTrials

\* no trial is armed or being recorded once the trials are all done
NothingArmedWhenDone ==
    AllTrialsDone => state \notin {ARMED, RECORDING}

\* arm_trial called when the trials are all done returns False and arms nothing
ArmRefusedWhenDone ==
    (AllTrialsDone /\ ecalled'.op = "arm_trial")
        => /\ ecalled'.value = "False"
           /\ UNCHANGED <<state, current_trial, completed_trials, trial_data>>

\* C31: completed_trials never exceeds max_trials; once it equals max_trials
\* arm_trial returns False, and no trial is armed or recorded any more.
C31_CompletedNeverExceedsMax ==
    /\ [](completed_trials <= MaxTrials /\ NothingArmedWhenDone)
    /\ [][ArmRefusedWhenDone]_vars

\* the last trial was completed and an arm_trial made after it was refused
C31_Witness ==
    /\ AllTrialsDone
    /\ Len(trial_results) = MaxTrials
    /\ ecalled.op = "arm_trial"
    /\ ecalled.value = "False"

\* a step is a stop_recording that returned True
StoppedTrial == ecalled'.op = "stop_recording" /\ ecalled'.value = "True"

\* completed_trials grows by one with a successful stop_recording and is
\* left alone by every other call
CountsStoppedTrials ==
    IF StoppedTrial THEN completed_trials' = completed_trials + 1
    ELSE UNCHANGED completed_trials

\* the trial that is armed or recorded is the one after the completed ones
CurrentIsNext ==
    state \in {ARMED, RECORDING} => current_trial = completed_trials + 1

\* C32: completed_trials increases by exactly one on each successful
\* stop_recording and is changed by no other call (cancel_current_trial,
\* refused or failed arm, start and stop calls, update); whenever the state is
\* ARMED or RECORDING, current_trial = completed_trials + 1.
C32_CompletedCountsStops ==
    /\ []CurrentIsNext
    /\ [][CountsStoppedTrials]_vars

\* the first trial was stopped and counted, and the second was cancelled
\* with its samples and is not
C32_Witness ==
    /\ ecalled.op = "cancel_current_trial"
    /\ ecalled.value = "True"
    /\ completed_trials = 1
    /\ Len(trial_results) = 1
    /\ current_trial = 2
    /\ start_time = 1

\* C33: every completed trial has exactly one saved result: the number of
\* entries of trial_results equals completed_trials after any sequence of
\* calls, also for a trial stopped before a sample was recorded, and a
\* cancelled trial adds no entry.
C33_OneResultPerCompletedTrial ==
    Len(trial_results) = completed_trials

\* arm_trial succeeds at once, or after cancel_current_trial, or after a
\* stop_recording whose file can be written
ArmsAgain(self) ==
    \/ arm_trial(self).value = "True"
    \/ arm_trial(cancel_current_trial(self).self).value = "True"
    \/ /\ stop_recording(self, TRUE).self.completed_trials < MaxTrials
       /\ arm_trial(stop_recording(self, TRUE).self).value = "True"

\* C34: the experiment is never left in SAVING when stop_recording ends, also
\* when the trial file cannot be written; from every reachable state with
\* completed_trials < max_trials a cancel or a stop followed by arm_trial
\* arms a new trial.
C34_SavingIsTransient ==
    /\ state # SAVING
    /\ (completed_trials < MaxTrials => ArmsAgain(ExperimentSelf))
====
